---- MODULE Spec2Model ----
(***************************************************************************)
(* Scene state, undo/redo history and its two persistence channels of the  *)
(* environment-map editor (store.tsx, SceneHistoryPersistence,             *)
(* useUrlStateSync).                                                       *)
(*                                                                         *)
(* JavaScript values that the code inspects with typeof / Array.isArray /  *)
(* truthiness are tagged records [t, v]; a light carries the enumeration   *)
(* order of its properties (keys), which JSON.stringify observes and a     *)
(* deep value comparison does not.                                         *)
(***************************************************************************)
EXTENDS Integers, Sequences, FiniteSets, TLC

\* ------------------------------------------------------------------------
\* Bounds of the exploration (not program constants)
\* ------------------------------------------------------------------------
MaxSteps == 4
LongExtra == 1
MaxSyncEntries == 2
MaxBurst == 10

\* ------------------------------------------------------------------------
\* Program constants
\* ------------------------------------------------------------------------
SCENE_HISTORY_LIMIT == 100

\* ------------------------------------------------------------------------
\* JavaScript numbers as seen by typeof, Math.min/Math.max and indexing
\* ------------------------------------------------------------------------
Num(n) == [t |-> "num", v |-> n]
Half(n) == [t |-> "half", v |-> n]        \* the non-integer n + 0.5
NaN == [t |-> "nan", v |-> 0]
Undefined == [t |-> "undefined", v |-> 0]
Null == [t |-> "null", v |-> 0]
Str == [t |-> "string", v |-> 0]

isNumber(x) == x.t \in {"num", "half", "nan"}

\* Math.max(x, n) for an integer n
MathMax(x, n) ==
  CASE x.t = "nan" -> NaN
    [] x.t = "num" -> IF x.v >= n THEN x ELSE Num(n)
    [] x.t = "half" -> IF x.v >= n THEN x ELSE Num(n)
    [] OTHER -> NaN

\* Math.min(x, n) for an integer n
MathMin(x, n) ==
  CASE x.t = "nan" -> NaN
    [] x.t = "num" -> IF x.v <= n THEN x ELSE Num(n)
    [] x.t = "half" -> IF x.v < n THEN x ELSE Num(n)
    [] OTHER -> NaN

\* ------------------------------------------------------------------------
\* Lights, cameras, snapshots
\* ------------------------------------------------------------------------
Light(id, ts, selected, visible, solo, keys) ==
  [id |-> id, ts |-> ts, selected |-> selected, visible |-> visible,
   solo |-> solo, keys |-> keys]

Camera(id, selected, position) ==
  [id |-> id, selected |-> selected, position |-> position]

defaultLights == << Light(1, 0, FALSE, TRUE, FALSE, "std") >>

defaultCameras == << Camera(1, TRUE, 5) >>

cloneSnapshot(value) == value

createSceneSnapshot(l, c, i) ==
  [version |-> 1, lights |-> cloneSnapshot(l), cameras |-> cloneSnapshot(c),
   iblRotation |-> i]

\* JSON.stringify of a number-valued property: NaN and null both print as
\* null, an undefined property is left out.
JsonNumber(x) ==
  CASE x.t \in {"num", "half"} -> x
    [] x.t \in {"nan", "null"} -> Null
    [] x.t = "undefined" -> [t |-> "omitted", v |-> 0]
    [] OTHER -> x

\* JSON.stringify(snapshot): properties are printed in enumeration order,
\* so the text of a light depends on its keys.
JsonStringify(s) ==
  [version |-> s.version, lights |-> s.lights, cameras |-> s.cameras,
   iblRotation |-> JsonNumber(s.iblRotation)]

snapshotsEqual(a, b) == JsonStringify(a) = JsonStringify(b)

\* Deep value equality: same properties with the same values, whatever
\* their enumeration order.
StripKeys(ls) == [i \in 1..Len(ls) |-> [ls[i] EXCEPT !.keys = "std"]]

DeepEqual(a, b) ==
  /\ a.version = b.version
  /\ StripKeys(a.lights) = StripKeys(b.lights)
  /\ a.cameras = b.cameras
  /\ a.iblRotation = b.iblRotation

defaultSceneSnapshot == createSceneSnapshot(defaultLights, defaultCameras, Num(0))

\* ------------------------------------------------------------------------
\* State
\* ------------------------------------------------------------------------
VARIABLES
  lights,        \* lightsStateAtom
  cameras,       \* camerasStateAtom
  iblRotation,   \* iblRotationStateAtom
  isApplying,    \* isApplyingSceneSnapshotAtom
  sceneDirty,    \* sceneDirtyAtom
  history,       \* sceneHistoryAtom: [entries, index, hydrated]
  threw,         \* the last operation raised an exception
  lastOp,        \* the last operation and its argument
  steps,         \* operations performed so far (exploration budget)
  mode,          \* modeAtom
  persistence,   \* the SceneHistoryPersistence component
  urlSync,       \* the refs and state of the useUrlStateSync hook
  wrote,         \* what the last step wrote: [idb, url, commit], and the
                 \* number of changes a timer's flush covered
  burst,         \* watched-state changes in a row since the last other event
  toast,         \* the notification the last step raised: none, success, error
  calc           \* a pure computation under check: its input and results

storeVars == << lights, cameras, iblRotation, isApplying, sceneDirty, history >>

syncVars == << mode, persistence, urlSync, wrote, burst, toast >>

vars == << lights, cameras, iblRotation, isApplying, sceneDirty, history,
           threw, lastOp, steps, mode, persistence, urlSync, wrote, burst, toast,
           calc >>

\* The store as one value, for the handlers below.
Store ==
  [lights |-> lights, cameras |-> cameras, iblRotation |-> iblRotation,
   isApplying |-> isApplying, sceneDirty |-> sceneDirty, history |-> history,
   threw |-> FALSE]

StoreBecomes(st) ==
  /\ lights' = st.lights
  /\ cameras' = st.cameras
  /\ iblRotation' = st.iblRotation
  /\ isApplying' = st.isApplying
  /\ sceneDirty' = st.sceneDirty
  /\ history' = st.history
  /\ threw' = st.threw

LiveSnapshot(st) == createSceneSnapshot(st.lights, st.cameras, st.iblRotation)

\* ------------------------------------------------------------------------
\* History helpers
\* ------------------------------------------------------------------------
\* array.slice(-n)
SliceLast(s, n) == IF Len(s) > n THEN SubSeq(s, Len(s) - n + 1, Len(s)) ELSE s

\* variants of appendSceneHistory with a plausible slip each
appendSceneHistory_NoTrim(h, snapshot) ==
  LET current == h.entries[h.index + 1]
      truncated == Append(SubSeq(h.entries, 1, h.index + 1), cloneSnapshot(snapshot))
  IN  IF snapshotsEqual(current, snapshot)
        THEN [entries |-> h.entries, index |-> h.index]
        ELSE [entries |-> truncated, index |-> Len(truncated) - 1]

appendSceneHistory_DropNewest(h, snapshot) ==
  LET current == h.entries[h.index + 1]
      truncated == Append(SubSeq(h.entries, 1, h.index + 1), cloneSnapshot(snapshot))
      trimmed == SubSeq(truncated, 1, SCENE_HISTORY_LIMIT)
  IN  IF snapshotsEqual(current, snapshot)
        THEN [entries |-> h.entries, index |-> h.index]
        ELSE IF Len(truncated) > SCENE_HISTORY_LIMIT
          THEN [entries |-> trimmed, index |-> Len(trimmed) - 1]
          ELSE [entries |-> truncated, index |-> Len(truncated) - 1]

appendSceneHistory_CompareLast(h, snapshot) ==
  LET current == h.entries[Len(h.entries)]
      truncated == Append(SubSeq(h.entries, 1, h.index + 1), cloneSnapshot(snapshot))
      trimmed == SliceLast(truncated, SCENE_HISTORY_LIMIT)
  IN  IF snapshotsEqual(current, snapshot)
        THEN [entries |-> h.entries, index |-> h.index]
        ELSE IF Len(truncated) > SCENE_HISTORY_LIMIT
          THEN [entries |-> trimmed, index |-> Len(trimmed) - 1]
          ELSE [entries |-> truncated, index |-> Len(truncated) - 1]

appendSceneHistory(h, snapshot) ==
  LET current == h.entries[h.index + 1]
      truncated == Append(SubSeq(h.entries, 1, h.index + 1), cloneSnapshot(snapshot))
      trimmed == SliceLast(truncated, SCENE_HISTORY_LIMIT)
  IN  IF snapshotsEqual(current, snapshot)
        THEN [entries |-> h.entries, index |-> h.index]
        ELSE IF Len(truncated) > SCENE_HISTORY_LIMIT
          THEN [entries |-> trimmed, index |-> Len(trimmed) - 1]
          ELSE [entries |-> truncated, index |-> Len(truncated) - 1]

\* A persisted entry as read back: anything at all.
RawEntry(isObject, version, lightsIsArray, ls, camerasIsArray, cs, ibl) ==
  [isObject |-> isObject, version |-> version,
   lightsIsArray |-> lightsIsArray, lights |-> ls,
   camerasIsArray |-> camerasIsArray, cameras |-> cs, iblRotation |-> ibl]

RawOf(s) == RawEntry(TRUE, s.version, TRUE, s.lights, TRUE, s.cameras, s.iblRotation)

\* The filter predicate of normalizeSceneHistory
IsSceneSnapshot(entry) ==
  /\ entry.isObject
  /\ entry.version = 1
  /\ entry.lightsIsArray
  /\ entry.camerasIsArray

\* normalizeSceneHistory falling back to the built-in default scene
\* instead of the snapshot of the live state
normalizeSceneHistory_DefaultFallback(entries, index, fallback) ==
  IF entries.t \in {"undefined", "null"} \/ (entries.t = "array" /\ Len(entries.v) = 0)
    THEN [threw |-> FALSE, entries |-> << defaultSceneSnapshot >>, index |-> Num(0)]
  ELSE IF entries.t # "array"
    THEN [threw |-> TRUE, entries |-> << defaultSceneSnapshot >>, index |-> Num(0)]
  ELSE
    LET kept == SliceLast(SelectSeq(entries.v, IsSceneSnapshot), SCENE_HISTORY_LIMIT)
        trimmed == [i \in 1..Len(kept) |->
                      createSceneSnapshot(kept[i].lights, kept[i].cameras,
                        IF isNumber(kept[i].iblRotation)
                          THEN kept[i].iblRotation ELSE Num(0))]
        rawIndex == IF isNumber(index) THEN index ELSE Num(Len(trimmed) - 1)
        maxIndex == Len(trimmed) - 1
        clampedIndex == MathMin(MathMax(rawIndex, 0), maxIndex)
    IN  IF Len(trimmed) = 0
          THEN [threw |-> FALSE, entries |-> << defaultSceneSnapshot >>, index |-> Num(0)]
          ELSE [threw |-> FALSE, entries |-> trimmed, index |-> clampedIndex]

\* entries: [t, v] with t in {"undefined", "null", "array", "nonarray"};
\* index: a tagged number.  The result's index is the tagged clampedIndex;
\* threw: entries.filter is not a function.
normalizeSceneHistory(entries, index, fallback) ==
  IF entries.t \in {"undefined", "null"} \/ (entries.t = "array" /\ Len(entries.v) = 0)
    THEN [threw |-> FALSE, entries |-> << fallback >>, index |-> Num(0)]
  ELSE IF entries.t # "array"
    THEN [threw |-> TRUE, entries |-> << fallback >>, index |-> Num(0)]
  ELSE
    LET kept == SliceLast(SelectSeq(entries.v, IsSceneSnapshot), SCENE_HISTORY_LIMIT)
        trimmed == [i \in 1..Len(kept) |->
                      createSceneSnapshot(kept[i].lights, kept[i].cameras,
                        IF isNumber(kept[i].iblRotation)
                          THEN kept[i].iblRotation ELSE Num(0))]
        rawIndex == IF isNumber(index) THEN index ELSE Num(Len(trimmed) - 1)
        maxIndex == Len(trimmed) - 1
        clampedIndex == MathMin(MathMax(rawIndex, 0), maxIndex)
    IN  IF Len(trimmed) = 0
          THEN [threw |-> FALSE, entries |-> << fallback >>, index |-> Num(0)]
          ELSE [threw |-> FALSE, entries |-> trimmed, index |-> clampedIndex]

\* ------------------------------------------------------------------------
\* Write atoms of the store, as functions of the store
\* ------------------------------------------------------------------------
NoSnapshot == [given |-> FALSE, s |-> defaultSceneSnapshot]
Given(s) == [given |-> TRUE, s |-> s]

pushSceneHistoryAtom(st, snapshot) ==
  IF st.isApplying THEN st
  ELSE
    LET nextSnapshot ==
          IF snapshot.given
            THEN createSceneSnapshot(snapshot.s.lights, snapshot.s.cameras,
                                     snapshot.s.iblRotation)
            ELSE LiveSnapshot(st)
        next == appendSceneHistory(st.history, nextSnapshot)
    IN  [st EXCEPT !.history = [entries |-> next.entries, index |-> next.index,
                                hydrated |-> st.history.hydrated]]

lightsAtom(st, next) == [st EXCEPT !.lights = next, !.sceneDirty = TRUE]

camerasAtom(st, next) == [st EXCEPT !.cameras = next, !.sceneDirty = TRUE]

iblRotationAtom(st, value) == [st EXCEPT !.iblRotation = value, !.sceneDirty = TRUE]

\* the import that first records the live state it is about to replace
applySceneSnapshotAtom_RecordLive(st, snapshot) ==
  pushSceneHistoryAtom(
    [pushSceneHistoryAtom(st, NoSnapshot)
       EXCEPT !.lights = cloneSnapshot(snapshot.lights),
              !.cameras = cloneSnapshot(snapshot.cameras),
              !.iblRotation = snapshot.iblRotation,
              !.isApplying = FALSE,
              !.sceneDirty = FALSE],
    Given(snapshot))

applySceneSnapshotAtom(st, snapshot) ==
  pushSceneHistoryAtom(
    [st EXCEPT !.lights = cloneSnapshot(snapshot.lights),
               !.cameras = cloneSnapshot(snapshot.cameras),
               !.iblRotation = snapshot.iblRotation,
               !.isApplying = FALSE,
               !.sceneDirty = FALSE],
    Given(snapshot))

\* undo that throws away the entries it steps back from
undoSceneAtom_DropUndone(st) ==
  IF st.history.index <= 0 THEN st
  ELSE
    LET nextIndex == st.history.index - 1
        snapshot == st.history.entries[nextIndex + 1]
    IN  [st EXCEPT !.lights = cloneSnapshot(snapshot.lights),
                   !.cameras = cloneSnapshot(snapshot.cameras),
                   !.iblRotation = snapshot.iblRotation,
                   !.isApplying = FALSE,
                   !.sceneDirty = FALSE,
                   !.history.entries = SubSeq(st.history.entries, 1, nextIndex + 1),
                   !.history.index = nextIndex]

\* undo whose guard lets index 0 through and restores the first entry
undoSceneAtom_RestoreAtZero(st) ==
  IF st.history.index < 0 THEN st
  ELSE
    LET nextIndex == IF st.history.index = 0 THEN 0 ELSE st.history.index - 1
        snapshot == st.history.entries[nextIndex + 1]
    IN  [st EXCEPT !.lights = cloneSnapshot(snapshot.lights),
                   !.cameras = cloneSnapshot(snapshot.cameras),
                   !.iblRotation = snapshot.iblRotation,
                   !.isApplying = FALSE,
                   !.sceneDirty = FALSE,
                   !.history.index = nextIndex]

undoSceneAtom(st) ==
  IF st.history.index <= 0 THEN st
  ELSE
    LET nextIndex == st.history.index - 1
        snapshot == st.history.entries[nextIndex + 1]
    IN  [st EXCEPT !.lights = cloneSnapshot(snapshot.lights),
                   !.cameras = cloneSnapshot(snapshot.cameras),
                   !.iblRotation = snapshot.iblRotation,
                   !.isApplying = FALSE,
                   !.sceneDirty = FALSE,
                   !.history.index = nextIndex]

\* redo that leaves the dirty flag as it was
redoSceneAtom_KeepDirty(st) ==
  IF st.history.index >= Len(st.history.entries) - 1 THEN st
  ELSE
    LET nextIndex == st.history.index + 1
        snapshot == st.history.entries[nextIndex + 1]
    IN  [st EXCEPT !.lights = cloneSnapshot(snapshot.lights),
                   !.cameras = cloneSnapshot(snapshot.cameras),
                   !.iblRotation = snapshot.iblRotation,
                   !.isApplying = FALSE,
                   !.history.index = nextIndex]

\* redo that forgets to restore the environment rotation
redoSceneAtom_KeepIbl(st) ==
  IF st.history.index >= Len(st.history.entries) - 1 THEN st
  ELSE
    LET nextIndex == st.history.index + 1
        snapshot == st.history.entries[nextIndex + 1]
    IN  [st EXCEPT !.lights = cloneSnapshot(snapshot.lights),
                   !.cameras = cloneSnapshot(snapshot.cameras),
                   !.isApplying = FALSE,
                   !.sceneDirty = FALSE,
                   !.history.index = nextIndex]

redoSceneAtom(st) ==
  IF st.history.index >= Len(st.history.entries) - 1 THEN st
  ELSE
    LET nextIndex == st.history.index + 1
        snapshot == st.history.entries[nextIndex + 1]
    IN  [st EXCEPT !.lights = cloneSnapshot(snapshot.lights),
                   !.cameras = cloneSnapshot(snapshot.cameras),
                   !.iblRotation = snapshot.iblRotation,
                   !.isApplying = FALSE,
                   !.sceneDirty = FALSE,
                   !.history.index = nextIndex]

\* payload: [t, entries, index]; t = "null" stands for null, undefined and
\* every primitive (payload?.entries is then undefined).
hydrateSceneHistoryAtom(st, payload) ==
  LET fallback == LiveSnapshot(st)
      normalized ==
        normalizeSceneHistory(
          IF payload.t = "object" THEN payload.entries
                                  ELSE [t |-> "undefined", v |-> << >>],
          IF payload.t = "object" THEN payload.index ELSE Undefined,
          fallback)
  IN  IF normalized.threw
        THEN [st EXCEPT !.threw = TRUE]
      ELSE IF normalized.index.t # "num"
        \* entries[NaN] and entries[1.5] are undefined: current.lights
        \* throws after the guard has been raised
        THEN [st EXCEPT !.isApplying = TRUE, !.threw = TRUE]
      ELSE
        LET current == normalized.entries[normalized.index.v + 1]
        IN  [st EXCEPT !.lights = cloneSnapshot(current.lights),
                       !.cameras = cloneSnapshot(current.cameras),
                       !.iblRotation = current.iblRotation,
                       !.isApplying = FALSE,
                       !.sceneDirty = FALSE,
                       !.history = [entries |-> normalized.entries,
                                    index |-> normalized.index.v,
                                    hydrated |-> TRUE]]

commitSceneHistoryAtom(st) ==
  IF ~st.sceneDirty THEN st
  ELSE pushSceneHistoryAtom([st EXCEPT !.sceneDirty = FALSE], Given(LiveSnapshot(st)))

\* ------------------------------------------------------------------------
\* Inputs
\* ------------------------------------------------------------------------
selectedLights == << Light(1, 0, TRUE, TRUE, FALSE, "std") >>

\* the default lights read from a file that lists the properties in
\* another order
reorderedLights == << Light(1, 0, FALSE, TRUE, FALSE, "alt") >>

twoCameras == << Camera(1, FALSE, 5), Camera(2, TRUE, 5) >>

LightsInputs == { defaultLights, selectedLights }

CamerasInputs == { defaultCameras, twoCameras }

IblInputs == { Num(0), Num(1) }

\* snapshots handed to push and to the settings import
SnapshotInputs ==
  { defaultSceneSnapshot,
    createSceneSnapshot(reorderedLights, defaultCameras, Num(0)),
    createSceneSnapshot(selectedLights, twoCameras, Num(1)),
    createSceneSnapshot(defaultLights, defaultCameras, Undefined) }

Entries(seq) == [t |-> "array", v |-> seq]

Payload(entries, index) == [t |-> "object", entries |-> entries, index |-> index]

NullPayload == [t |-> "null", entries |-> [t |-> "undefined", v |-> << >>],
                index |-> Undefined]

snapA == createSceneSnapshot(defaultLights, defaultCameras, Num(0))
snapB == createSceneSnapshot(selectedLights, defaultCameras, Num(0))
snapC == createSceneSnapshot(selectedLights, twoCameras, Num(1))

ThreeValid == << RawOf(snapA), RawOf(snapB), RawOf(snapC) >>

TwoValid == << RawOf(snapB), RawOf(snapA) >>

\* null, a wrong version, lights that are no array, cameras that are no array
BadEntries ==
  << RawEntry(FALSE, 0, FALSE, << >>, FALSE, << >>, Undefined),
     RawEntry(TRUE, 2, TRUE, defaultLights, TRUE, defaultCameras, Num(0)),
     RawEntry(TRUE, 1, FALSE, << >>, TRUE, defaultCameras, Num(0)),
     RawEntry(TRUE, 1, TRUE, defaultLights, FALSE, << >>, Num(0)) >>

MixedEntries ==
  << RawOf(snapB), BadEntries[1],
     RawEntry(TRUE, 1, TRUE, defaultLights, TRUE, twoCameras, Undefined),
     BadEntries[2],
     RawEntry(TRUE, 1, TRUE, selectedLights, TRUE, defaultCameras, Str),
     BadEntries[3] >>

\* n valid entries, all different
LongEntries(n) ==
  [i \in 1..n |-> RawOf(createSceneSnapshot(defaultLights, defaultCameras, Num(i)))]

PayloadNames ==
  { "null", "empty5", "noEntries", "nullEntries", "nonArray", "allBad",
    "mixed", "mixedNaN", "valid1", "validNoIndex", "validStr", "validNaN",
    "validHalf", "validNeg", "validBig", "full", "fullMid", "long", "longMid",
    "pair", "pairHalf" }

PayloadOf(name) ==
  CASE name = "null" -> NullPayload
    [] name = "empty5" -> Payload(Entries(<< >>), Num(5))
    [] name = "noEntries" -> Payload([t |-> "undefined", v |-> << >>], Num(0))
    [] name = "nullEntries" -> Payload([t |-> "null", v |-> << >>], Num(0))
    [] name = "nonArray" -> Payload([t |-> "nonarray", v |-> << >>], Num(0))
    [] name = "allBad" -> Payload(Entries(BadEntries), Num(1))
    [] name = "mixed" -> Payload(Entries(MixedEntries), Num(1))
    [] name = "mixedNaN" -> Payload(Entries(MixedEntries), NaN)
    [] name = "valid1" -> Payload(Entries(ThreeValid), Num(1))
    [] name = "validNoIndex" -> Payload(Entries(ThreeValid), Undefined)
    [] name = "validStr" -> Payload(Entries(ThreeValid), Str)
    [] name = "validNaN" -> Payload(Entries(ThreeValid), NaN)
    [] name = "validHalf" -> Payload(Entries(ThreeValid), Half(0))
    [] name = "validNeg" -> Payload(Entries(ThreeValid), Num(-2))
    [] name = "validBig" -> Payload(Entries(ThreeValid), Num(7))
    [] name = "full" ->
         Payload(Entries(LongEntries(SCENE_HISTORY_LIMIT)), Num(SCENE_HISTORY_LIMIT - 1))
    [] name = "fullMid" ->
         Payload(Entries(LongEntries(SCENE_HISTORY_LIMIT)), Num(SCENE_HISTORY_LIMIT - 2))
    [] name = "long" ->
         Payload(Entries(LongEntries(SCENE_HISTORY_LIMIT + LongExtra)), Undefined)
    [] name = "longMid" ->
         Payload(Entries(LongEntries(SCENE_HISTORY_LIMIT + LongExtra)), Num(1))
    [] name = "pair" -> Payload(Entries(TwoValid), Num(0))
    [] name = "pairHalf" -> Payload(Entries(TwoValid), Half(0))

defaultMode == [scene |-> TRUE, hdri |-> TRUE, code |-> FALSE]

codeMode == [scene |-> TRUE, hdri |-> TRUE, code |-> TRUE]

\* lastSnapshotRef before the first write (the empty string)
EmptySnapshotRef == [t |-> "empty", mode |-> defaultMode, lights |-> << >>,
                     cameras |-> << >>]

NoWrite == [t |-> "none", entries |-> << >>, index |-> 0, seq |-> 0]

NothingWritten == [idb |-> FALSE, url |-> FALSE, commit |-> FALSE, burst |-> 0]

\* ------------------------------------------------------------------------
\* The store's operations as actions
\* ------------------------------------------------------------------------
NoCalc == [fn |-> "none"]

Op(name, snapshot, payload) == [op |-> name, snapshot |-> snapshot, payload |-> payload]

\* every atom, ref and component in its state after construction
AtRest ==
  /\ lights = cloneSnapshot(defaultLights)
  /\ cameras = cloneSnapshot(defaultCameras)
  /\ iblRotation = Num(0)
  /\ isApplying = FALSE
  /\ sceneDirty = FALSE
  /\ history = [entries |-> << defaultSceneSnapshot >>, index |-> 0, hydrated |-> FALSE]
  /\ threw = FALSE
  /\ lastOp = Op("init", defaultSceneSnapshot, "null")
  /\ steps = 0
  /\ mode = defaultMode
  /\ persistence = [phase |-> "unmounted", commitTimer |-> FALSE, timers |-> 0,
                    issued |-> NoWrite]
  /\ urlSync = [phase |-> "unmounted", hydratedRef |-> FALSE, dirtyRef |-> FALSE,
                interactingRef |-> FALSE, timerRef |-> "none", timers |-> 0,
                lastSnapshotRef |-> EmptySnapshotRef, modeRef |-> defaultMode,
                lightsRef |-> defaultLights, camerasRef |-> defaultCameras,
                address |-> EmptySnapshotRef]
  /\ wrote = NothingWritten
  /\ burst = 0
  /\ toast = "none"

Init ==
  /\ AtRest
  /\ calc = NoCalc

Step(name, snapshot, payload, st) ==
  /\ steps < MaxSteps
  /\ steps' = steps + 1
  /\ lastOp' = Op(name, snapshot, payload)
  /\ StoreBecomes(st)
  /\ UNCHANGED << syncVars, calc >>

SetLights == \E v \in LightsInputs :
  Step("setLights", defaultSceneSnapshot, "null", lightsAtom(Store, v))

SetCameras == \E v \in CamerasInputs :
  Step("setCameras", defaultSceneSnapshot, "null", camerasAtom(Store, v))

SetIblRotation == \E v \in IblInputs :
  Step("setIblRotation", defaultSceneSnapshot, "null", iblRotationAtom(Store, v))

PushLive ==
  Step("pushLive", LiveSnapshot(Store), "null", pushSceneHistoryAtom(Store, NoSnapshot))

Push == \E s \in SnapshotInputs :
  Step("push", s, "null", pushSceneHistoryAtom(Store, Given(s)))

Commit == Step("commit", LiveSnapshot(Store), "null", commitSceneHistoryAtom(Store))

Undo == Step("undo", defaultSceneSnapshot, "null", undoSceneAtom(Store))

Redo == Step("redo", defaultSceneSnapshot, "null", redoSceneAtom(Store))

ApplySceneSnapshot == \E s \in SnapshotInputs :
  Step("apply", s, "null", applySceneSnapshotAtom(Store, s))

Hydrate == \E p \in PayloadNames :
  Step("hydrate", LiveSnapshot(Store), p, hydrateSceneHistoryAtom(Store, PayloadOf(p)))

Next ==
  \/ SetLights
  \/ SetCameras
  \/ SetIblRotation
  \/ PushLive
  \/ Push
  \/ Commit
  \/ Undo
  \/ Redo
  \/ ApplySceneSnapshot
  \/ Hydrate

Spec == Init /\ [][Next]_vars

\* ------------------------------------------------------------------------
\* Push-only runs from the initial history
\* ------------------------------------------------------------------------
PushInputs ==
  { createSceneSnapshot(defaultLights, defaultCameras, Num(0)),
    createSceneSnapshot(defaultLights, defaultCameras, Num(1)) }

PStep(name, snapshot, st) ==
  /\ lastOp' = Op(name, snapshot, "null")
  /\ StoreBecomes(st)
  /\ UNCHANGED << steps, syncVars, calc >>

PEdit == \E v \in IblInputs :
  PStep("setIblRotation", defaultSceneSnapshot, iblRotationAtom(Store, v))

PPushLive == PStep("pushLive", LiveSnapshot(Store), pushSceneHistoryAtom(Store, NoSnapshot))

PPush == \E s \in PushInputs : PStep("push", s, pushSceneHistoryAtom(Store, Given(s)))

NextPush == PEdit \/ PPushLive \/ PPush

SpecPush == Init /\ [][NextPush]_vars

\* ------------------------------------------------------------------------
\* useUrlStateSync: the URL channel
\* ------------------------------------------------------------------------
\* the variant that leaves ts in the payload
stripLightForUrl_KeepTs(light) == light

stripLightForUrl(light) ==
  [id |-> light.id, selected |-> light.selected, visible |-> light.visible,
   solo |-> light.solo, keys |-> light.keys]

\* JSON.stringify(payload) of writeUrlIfNeeded
UrlSnapshot(u) ==
  [t |-> "json", mode |-> u.modeRef,
   lights |-> [i \in 1..Len(u.lightsRef) |-> stripLightForUrl(u.lightsRef[i])],
   cameras |-> u.camerasRef]

\* timers counts the timeouts of the hook that the window still holds
clearTimer(u) ==
  IF u.timerRef # "none" THEN [u EXCEPT !.timerRef = "none", !.timers = @ - 1] ELSE u

\* writeUrlIfNeeded without the check of interactingRef
writeUrlIfNeeded_IgnoreInteraction(u) ==
  IF ~u.hydratedRef \/ ~u.dirtyRef THEN u
  ELSE IF UrlSnapshot(u) = u.lastSnapshotRef THEN [u EXCEPT !.dirtyRef = FALSE]
  ELSE [u EXCEPT !.address = UrlSnapshot(u),
                 !.lastSnapshotRef = UrlSnapshot(u),
                 !.dirtyRef = FALSE]

\* writeUrlIfNeeded that writes without recording what it wrote
writeUrlIfNeeded_NoRecord(u) ==
  IF ~u.hydratedRef \/ ~u.dirtyRef THEN u
  ELSE IF u.interactingRef THEN u
  ELSE IF UrlSnapshot(u) = u.lastSnapshotRef THEN [u EXCEPT !.dirtyRef = FALSE]
  ELSE [u EXCEPT !.address = UrlSnapshot(u),
                 !.dirtyRef = FALSE]

writeUrlIfNeeded(u) ==
  IF ~u.hydratedRef \/ ~u.dirtyRef THEN u
  ELSE IF u.interactingRef THEN u
  ELSE IF UrlSnapshot(u) = u.lastSnapshotRef THEN [u EXCEPT !.dirtyRef = FALSE]
  ELSE [u EXCEPT !.address = UrlSnapshot(u),
                 !.lastSnapshotRef = UrlSnapshot(u),
                 !.dirtyRef = FALSE]

\* the variant without a debounce: the write is attempted at once
scheduleFlush_Immediate(u, delay) == writeUrlIfNeeded(u)

\* scheduleFlush that starts no timer
scheduleFlush_Never(u, delay) == u

\* scheduleFlush without the check of timerRef
scheduleFlush_NoGuard(u, delay) == [u EXCEPT !.timerRef = delay, !.timers = @ + 1]

\* delay: "normal" (FLUSH_DELAY_MS) or "short" (60 ms)
scheduleFlush(u, delay) ==
  IF u.timerRef # "none" THEN u ELSE [u EXCEPT !.timerRef = delay, !.timers = @ + 1]

\* the callback without the rescheduling when the change is still dirty
flushTimerCallback_NoReschedule(u) ==
  writeUrlIfNeeded([u EXCEPT !.timerRef = "none", !.timers = @ - 1])

\* the callback that scheduleFlush hands to setTimeout
flushTimerCallback(u) ==
  LET written == writeUrlIfNeeded([u EXCEPT !.timerRef = "none", !.timers = @ - 1])
  IN  IF written.dirtyRef THEN scheduleFlush(written, "normal") ELSE written

\* the effects on [mode], [lights] and [cameras]
watchMode(u, value) ==
  LET u1 == [u EXCEPT !.modeRef = value]
  IN  IF ~u1.hydratedRef THEN u1
      ELSE scheduleFlush([u1 EXCEPT !.dirtyRef = TRUE], "normal")

watchLights(u, value) ==
  LET u1 == [u EXCEPT !.lightsRef = value]
  IN  IF ~u1.hydratedRef THEN u1
      ELSE scheduleFlush([u1 EXCEPT !.dirtyRef = TRUE], "normal")

watchCameras(u, value) ==
  LET u1 == [u EXCEPT !.camerasRef = value]
  IN  IF ~u1.hydratedRef THEN u1
      ELSE scheduleFlush([u1 EXCEPT !.dirtyRef = TRUE], "normal")

\* the effect on [isHydrated]
watchIsHydrated(u) ==
  scheduleFlush([u EXCEPT !.hydratedRef = TRUE, !.dirtyRef = TRUE], "normal")

handlePointerDown(u) == [u EXCEPT !.interactingRef = TRUE]

\* handlePointerUp that leaves a pending timer in place
handlePointerUp_KeepTimer(u) ==
  LET u1 == [u EXCEPT !.interactingRef = FALSE]
  IN  IF u1.dirtyRef THEN scheduleFlush(u1, "short") ELSE u1

handlePointerUp(u) ==
  LET u1 == [u EXCEPT !.interactingRef = FALSE]
  IN  IF u1.dirtyRef THEN scheduleFlush(clearTimer(u1), "short") ELSE u1

\* The watchers that run after a render in which the atoms named by
\* changed were replaced; before the hook is mounted nothing runs.
UrlWatchers(u, changed, m, ls, cs) ==
  IF u.phase = "unmounted" THEN u
  ELSE
    LET u1 == IF "mode" \in changed THEN watchMode(u, m) ELSE u
        u2 == IF "lights" \in changed THEN watchLights(u1, ls) ELSE u1
    IN  IF "cameras" \in changed THEN watchCameras(u2, cs) ELSE u2

\* ------------------------------------------------------------------------
\* SceneHistoryPersistence: the durable-store channel
\* ------------------------------------------------------------------------
\* the save effect without its hydration guard
saveEffect_NoGuard(per, before, after) ==
  IF per.phase = "unmounted" \/ after.history = before.history THEN per
  ELSE [per EXCEPT !.issued = [t |-> "write", entries |-> after.history.entries,
                               index |-> after.history.index,
                               seq |-> 1 - per.issued.seq]]

\* the effect on [history.entries, history.index, history.hydrated]
saveEffect(per, before, after) ==
  IF per.phase = "unmounted" \/ after.history = before.history THEN per
  ELSE IF ~after.history.hydrated THEN per
  ELSE [per EXCEPT !.issued = [t |-> "write", entries |-> after.history.entries,
                               index |-> after.history.index,
                               seq |-> 1 - per.issued.seq]]

\* the effect on [history.hydrated, isSceneDirty, lights, cameras]: its
\* cleanup clears the timer, its body starts a new one
debounceEffect(per, before, after, changed) ==
  IF per.phase = "unmounted" THEN per
  ELSE IF /\ after.history.hydrated = before.history.hydrated
          /\ after.sceneDirty = before.sceneDirty
          /\ "lights" \notin changed
          /\ "cameras" \notin changed
    THEN per
  ELSE [per EXCEPT !.commitTimer = (after.history.hydrated /\ after.sceneDirty),
                   !.timers = @ - (IF per.commitTimer THEN 1 ELSE 0)
                                + (IF after.history.hydrated /\ after.sceneDirty
                                     THEN 1 ELSE 0)]

\* flushCommit that leaves the commit to the debounce timer
flushCommit_WaitForTimer(st) == st

\* flushCommit, registered on pointerup and beforeunload once hydrated
flushCommit(st) == IF st.history.hydrated THEN commitSceneHistoryAtom(st) ELSE st

\* The load effect: hydrate with what idbGet returned; a read error and
\* an exception of the first hydrate both end in hydrate(null).
loadEffect(st, payload) ==
  LET first == hydrateSceneHistoryAtom(st, payload)
  IN  IF first.threw
        THEN hydrateSceneHistoryAtom([first EXCEPT !.threw = FALSE], NullPayload)
        ELSE first

\* ------------------------------------------------------------------------
\* The running application: events, timers and the effects they trigger
\* ------------------------------------------------------------------------
\* lights as normalizeLights builds them from the l parameter: a fresh ts
\* and the property order of normalizeLight
urlLights == << Light(1, 7, TRUE, TRUE, FALSE, "url") >>

UrlParamInputs == { "none", "lights" }

StoredPayloadNames == { "null", "pair", "pairHalf" }

SyncSnapshotInputs ==
  { createSceneSnapshot(reorderedLights, defaultCameras, Num(0)),
    createSceneSnapshot(selectedLights, twoCameras, Num(1)) }

Mounted == urlSync.phase # "unmounted"

\* both channels have hydrated and no pointer gesture is in progress
InQuietWindow ==
  /\ urlSync.hydratedRef
  /\ history.hydrated
  /\ ~urlSync.interactingRef

\* One event: the store becomes st, then the effects run on top of the
\* hook state u and the component state per that the handlers left;
\* changed names the atoms whose value was replaced.
SyncStep(name, st, m, u, per, changed, committed, counted) ==
  LET u2 == UrlWatchers(u, changed, m, st.lights, st.cameras)
      p1 == saveEffect(per, Store, st)
      p2 == debounceEffect(p1, Store, st, changed)
  IN  /\ Len(st.history.entries) <= MaxSyncEntries
      /\ StoreBecomes(st)
      /\ mode' = m
      /\ urlSync' = u2
      /\ persistence' = p2
      /\ wrote' = [idb |-> p1.issued # persistence.issued,
                   url |-> u2.lastSnapshotRef # urlSync.lastSnapshotRef,
                   commit |-> committed,
                   burst |-> IF name \in {"urlTimer", "commitTimer"} THEN burst ELSE 0]
      /\ burst' = IF counted /\ InQuietWindow THEN burst + 1 ELSE 0
      /\ toast' = IF name = "apply" THEN "success" ELSE "none"
      /\ lastOp' = Op(name, defaultSceneSnapshot, "null")
      /\ UNCHANGED << steps, calc >>

\* Both components mount; the first effect of the hook reads the address
\* bar, writes what it finds into the atoms and asks for a render with
\* isHydrated = true.  The load from the durable store starts.
Mount == \E params \in UrlParamInputs :
  /\ urlSync.phase = "unmounted"
  /\ SyncStep("mount",
              IF params = "lights" THEN lightsAtom(Store, urlLights) ELSE Store,
              mode,
              [urlSync EXCEPT !.phase = "mounted", !.modeRef = mode,
                              !.lightsRef = lights, !.camerasRef = cameras],
              [persistence EXCEPT !.phase = "loading"],
              IF params = "lights" THEN {"lights"} ELSE {},
              FALSE, FALSE)

\* The render with isHydrated = true: the effect on [isHydrated], then
\* the watchers
UrlRender ==
  /\ urlSync.phase = "mounted"
  /\ SyncStep("urlRender", Store, mode,
              watchIsHydrated([urlSync EXCEPT !.phase = "hydrated"]),
              persistence, {"mode", "lights", "cameras"}, FALSE, FALSE)

\* idbGet settles (payload "null" is also a failed read)
IdbLoadDone == \E p \in StoredPayloadNames :
  /\ persistence.phase = "loading"
  /\ SyncStep("load", loadEffect(Store, PayloadOf(p)), mode, urlSync,
              [persistence EXCEPT !.phase = "ready"], {"lights", "cameras"},
              FALSE, FALSE)

EditLights == \E v \in LightsInputs :
  /\ Mounted /\ burst < MaxBurst
  /\ SyncStep("setLights", lightsAtom(Store, v), mode, urlSync, persistence,
              {"lights"}, FALSE, TRUE)

EditMode == \E v \in {defaultMode, codeMode} :
  /\ Mounted /\ burst < MaxBurst
  /\ v # mode
  /\ SyncStep("setMode", Store, v, urlSync, persistence, {"mode"}, FALSE, TRUE)

UserUndo ==
  /\ Mounted
  /\ SyncStep("undo", undoSceneAtom(Store), mode, urlSync, persistence,
              IF history.index > 0 THEN {"lights", "cameras"} ELSE {},
              FALSE, FALSE)

UserRedo ==
  /\ Mounted
  /\ SyncStep("redo", redoSceneAtom(Store), mode, urlSync, persistence,
              IF history.index < Len(history.entries) - 1
                THEN {"lights", "cameras"} ELSE {},
              FALSE, FALSE)

DropSettings == \E s \in SyncSnapshotInputs :
  /\ Mounted
  /\ SyncStep("apply", applySceneSnapshotAtom(Store, s), mode, urlSync,
              persistence, {"lights", "cameras"}, FALSE, FALSE)

PointerDown ==
  /\ Mounted
  /\ SyncStep("pointerdown", Store, mode, handlePointerDown(urlSync),
              persistence, {}, FALSE, FALSE)

\* pointerup reaches the capturing listener of the hook, then flushCommit
PointerUp ==
  /\ Mounted
  /\ SyncStep("pointerup", flushCommit(Store), mode, handlePointerUp(urlSync),
              persistence, {}, flushCommit(Store) # Store, FALSE)

PointerCancel ==
  /\ Mounted
  /\ SyncStep("pointercancel", Store, mode, handlePointerUp(urlSync),
              persistence, {}, FALSE, FALSE)

BeforeUnload ==
  /\ Mounted
  /\ SyncStep("beforeunload", flushCommit(Store), mode, urlSync, persistence,
              {}, flushCommit(Store) # Store, FALSE)

UrlTimerFires ==
  /\ urlSync.timers > 0
  /\ SyncStep("urlTimer", Store, mode, flushTimerCallback(urlSync),
              persistence, {}, FALSE, FALSE)

CommitTimerFires ==
  /\ persistence.timers > 0
  /\ SyncStep("commitTimer", commitSceneHistoryAtom(Store), mode, urlSync,
              [persistence EXCEPT !.commitTimer = FALSE, !.timers = @ - 1],
              {}, TRUE, FALSE)

NextSync ==
  \/ Mount
  \/ UrlRender
  \/ IdbLoadDone
  \/ EditLights
  \/ EditMode
  \/ UserUndo
  \/ UserRedo
  \/ DropSettings
  \/ PointerDown
  \/ PointerUp
  \/ PointerCancel
  \/ BeforeUnload
  \/ UrlTimerFires
  \/ CommitTimerFires

SpecSync == Init /\ [][NextSync]_vars

\* ------------------------------------------------------------------------
\* Properties
\* ------------------------------------------------------------------------
Current == history.entries[history.index + 1]

Live == LiveSnapshot(Store)

\* C1: in every reachable state the history holds between 1 and 100
\* entries and index is an integer position of an existing entry.
HistoryWellFormed ==
  /\ Len(history.entries) >= 1
  /\ Len(history.entries) <= SCENE_HISTORY_LIMIT
  /\ history.index \in Int
  /\ 0 <= history.index
  /\ history.index <= Len(history.entries) - 1

\* a push has just trimmed a full history
HistoryFullAfterPush ==
  /\ lastOp.op = "pushLive"
  /\ Len(history.entries) = SCENE_HISTORY_LIMIT
  /\ history.index = SCENE_HISTORY_LIMIT - 1
  /\ Current = lastOp.snapshot
  /\ history.entries[1].iblRotation = Num(2)

\* C2: in push-only runs index is always the last position and the length
\* is at most 100; a push of a snapshot that differs from the current entry
\* onto 100 entries drops exactly the oldest entry, keeps the other 99 in
\* order, puts the new snapshot last and leaves index at 99.
PushKeepsIndexLast ==
  /\ history.index = Len(history.entries) - 1
  /\ Len(history.entries) <= SCENE_HISTORY_LIMIT
  /\ \A s \in PushInputs :
       LET r == pushSceneHistoryAtom(Store, Given(s)).history
       IN  /\ r.index = Len(r.entries) - 1
           /\ Len(r.entries) <= SCENE_HISTORY_LIMIT
           /\ (Len(history.entries) = SCENE_HISTORY_LIMIT /\ ~snapshotsEqual(Current, s))
                => /\ Len(r.entries) = SCENE_HISTORY_LIMIT
                   /\ \A i \in 1..(SCENE_HISTORY_LIMIT - 1) :
                        r.entries[i] = history.entries[i + 1]
                   /\ r.entries[SCENE_HISTORY_LIMIT] = s
                   /\ r.index = SCENE_HISTORY_LIMIT - 1

\* the 101st distinct snapshot has been pushed: the initial entry is gone
PushedBeyondLimit ==
  /\ lastOp.op \in {"push", "pushLive"}
  /\ Len(history.entries) = SCENE_HISTORY_LIMIT
  /\ history.entries[1] # defaultSceneSnapshot
  /\ Current = lastOp.snapshot

UndoRedoRestoresLive ==
  (0 < history.index /\ history.index < Len(history.entries) - 1) =>
    LET r == redoSceneAtom(undoSceneAtom(Store))
    IN  /\ LiveSnapshot(r) = Live
        /\ r.history.index = history.index

\* C4 amended: with 0 < index < length-1 and a live state equal to the
\* entry at index, undo then redo restores that live state and the index;
\* in every case the live state afterwards is the entry at index.
UndoRedoRestoresCommitted ==
  (0 < history.index /\ history.index < Len(history.entries) - 1) =>
    LET r == redoSceneAtom(undoSceneAtom(Store))
    IN  /\ LiveSnapshot(r) = Current
        /\ Live = Current => LiveSnapshot(r) = Live
        /\ r.history.index = history.index
        /\ r.history.entries = history.entries

\* a redo has acted in the middle of a history
RedoneMidHistory ==
  /\ lastOp.op = "redo"
  /\ 0 < history.index
  /\ history.index < Len(history.entries) - 1
  /\ Live = Current

EmptyPayloads == { "null", "empty5", "noEntries", "nullEntries" }

\* C5: hydrate with an empty entries list, or with null, yields exactly
\* one entry equal to a snapshot of the live state at the call, index 0,
\* and does not change the live state.
HydrateEmptyFallsBack ==
  (lastOp.op = "hydrate" /\ lastOp.payload \in EmptyPayloads) =>
    /\ ~threw
    /\ history.entries = << lastOp.snapshot >>
    /\ history.index = 0
    /\ Live = lastOp.snapshot

\* hydrate({entries: [], index: 5}) ran on an edited live state
HydratedEmptyOnEditedScene ==
  /\ lastOp.op = "hydrate"
  /\ lastOp.payload = "empty5"
  /\ lastOp.snapshot # defaultSceneSnapshot
  /\ Len(history.entries) = 1

\* C6: hydrate never throws and ends with a non-empty history, an index
\* that addresses an existing entry and the live state equal to that entry.
HydrateNeverFails ==
  lastOp.op = "hydrate" =>
    /\ ~threw
    /\ Len(history.entries) >= 1
    /\ history.index \in 0..(Len(history.entries) - 1)
    /\ Live = Current

\* C7: hydrated is false initially, every call of hydrate sets it to true
\* and no operation ever sets it back to false.
HydratedIsOneWayLatch ==
  /\ ~history.hydrated
  /\ [][/\ lastOp'.op = "hydrate" => history'.hydrated
        /\ history.hydrated => history'.hydrated]_vars

\* C8: while the history is not hydrated no write to the durable store is
\* issued, no debounced commit is pending or runs, and nothing has ever
\* been written; while the URL channel is not hydrated no URL write
\* happens and no flush is scheduled.
NoWriteBeforeHydration ==
  /\ ~history.hydrated =>
       /\ ~wrote.idb
       /\ ~wrote.commit
       /\ ~persistence.commitTimer
       /\ persistence.issued = NoWrite
  /\ ~urlSync.hydratedRef =>
       /\ ~wrote.url
       /\ urlSync.timerRef = "none"
       /\ urlSync.lastSnapshotRef = EmptySnapshotRef
       /\ urlSync.address = EmptySnapshotRef

\* a flush was attempted on an edited scene before either channel hydrated
FlushAttemptBeforeHydration ==
  /\ lastOp.op = "pointerup"
  /\ ~history.hydrated
  /\ ~urlSync.hydratedRef
  /\ sceneDirty
  /\ Len(history.entries) > 1

IsEdit(op) == op \in {"setLights", "setMode"}

MaxCameras == 3

CameraIds == 1..MaxCameras

\* cameras.find((c) => c.selected): the first selected camera's position
\* in the list, 0 for undefined
FindSelected(cs) ==
  IF \E i \in DOMAIN cs : cs[i].selected
  THEN CHOOSE i \in DOMAIN cs :
         /\ cs[i].selected
         /\ \A j \in DOMAIN cs : cs[j].selected => i <= j
  ELSE 0

\* a Partial<Camera>: the own properties it carries and their values
PartialCamera(keys, selected, position) ==
  [keys |-> keys, selected |-> selected, position |-> position]

\* { ...c, ...value }
SpreadCamera(c, value) ==
  Camera(c.id,
         IF "selected" \in value.keys THEN value.selected ELSE c.selected,
         IF "position" \in value.keys THEN value.position ELSE c.position)

\* the write half of selectedCameraAtom; with no selected camera the read
\* of selectedCamera.id is a TypeError and nothing is set
selectedCameraAtom(st, value) ==
  LET cs == st.cameras
      at == FindSelected(cs)
  IN IF at = 0
     THEN [st EXCEPT !.threw = TRUE]
     ELSE camerasAtom(st,
            [i \in DOMAIN cs |->
               IF cs[i].id = cs[at].id THEN SpreadCamera(cs[i], value) ELSE cs[i]])

isCameraSelectedAtom(st) ==
  Len(st.cameras) > 0 /\ \E i \in DOMAIN st.cameras : st.cameras[i].selected

toggleCameraSelectionAtom(st, cameraId) ==
  camerasAtom(st,
    [i \in DOMAIN st.cameras |->
       Camera(st.cameras[i].id,
              IF st.cameras[i].id = cameraId THEN ~st.cameras[i].selected ELSE FALSE,
              st.cameras[i].position)])

selectCameraAtom(st, cameraId) ==
  camerasAtom(st,
    [i \in DOMAIN st.cameras |->
       Camera(st.cameras[i].id, st.cameras[i].id = cameraId,
              st.cameras[i].position)])

\* non-empty camera lists with exactly one selected camera
CameraLists ==
  { [i \in 1..p[1] |-> Camera(i, i = p[2], 5)] :
      p \in { q \in CameraIds \X CameraIds : q[2] <= q[1] } }

PartialCameraInputs ==
  { PartialCamera({}, FALSE, 5),
    PartialCamera({"position"}, FALSE, 6),
    PartialCamera({"position"}, FALSE, 5),
    PartialCamera({"selected"}, TRUE, 5),
    PartialCamera({"selected"}, FALSE, 5) }

InitCam ==
  /\ lights = cloneSnapshot(defaultLights)
  /\ cameras \in CameraLists
  /\ iblRotation = Num(0)
  /\ isApplying = FALSE
  /\ sceneDirty = FALSE
  /\ history = [entries |-> << defaultSceneSnapshot >>, index |-> 0, hydrated |-> FALSE]
  /\ threw = FALSE
  /\ lastOp = Op("init", defaultSceneSnapshot, "null")
  /\ steps = 0
  /\ mode = defaultMode
  /\ persistence = [phase |-> "unmounted", commitTimer |-> FALSE, timers |-> 0,
                    issued |-> NoWrite]
  /\ urlSync = [phase |-> "unmounted", hydratedRef |-> FALSE, dirtyRef |-> FALSE,
                interactingRef |-> FALSE, timerRef |-> "none", timers |-> 0,
                lastSnapshotRef |-> EmptySnapshotRef,
                modeRef |-> defaultMode, lightsRef |-> defaultLights,
                camerasRef |-> defaultCameras, address |-> EmptySnapshotRef]
  /\ wrote = NothingWritten
  /\ burst = 0
  /\ toast = "none"
  /\ calc = NoCalc

CamStep(name, st) ==
  /\ lastOp' = Op(name, defaultSceneSnapshot, "null")
  /\ StoreBecomes(st)
  /\ UNCHANGED << steps, syncVars, calc >>

SelectCamera == \E id \in CameraIds :
  CamStep("selectCamera", selectCameraAtom(Store, id))

ToggleCameraSelection == \E id \in CameraIds :
  CamStep("toggleCameraSelection", toggleCameraSelectionAtom(Store, id))

WriteSelectedCamera == \E value \in PartialCameraInputs :
  CamStep("selectedCamera", selectedCameraAtom(Store, value))

NextCam ==
  \/ SelectCamera
  \/ ToggleCameraSelection
  \/ WriteSelectedCamera

SpecCam == InitCam /\ [][NextCam]_vars

\* C10: after any sequence of selectCamera, toggleCameraSelection and
\* writes through selectedCamera on a non-empty list that started with
\* exactly one selected camera, exactly one camera has selected = true.
ExactlyOneCameraSelected ==
  Cardinality({ i \in DOMAIN cameras : cameras[i].selected }) = 1

\* ------------------------------------------------------------------------
\* SettingsDropZone: a settings file dropped on the window
\* ------------------------------------------------------------------------
NotArray == [t |-> "other", v |-> << >>]

\* what reader.onload receives: no .json file among the dropped files,
\* text JSON.parse rejects, the JSON text null, a JSON number, or an object
DroppedFile(kind, version, l, c, i) ==
  [t |-> kind, version |-> version, lights |-> l, cameras |-> c, iblRotation |-> i]

FileNames ==
  { "nofile", "garbage", "null", "number", "version2", "versionStr",
    "noVersion", "lightsObject", "camerasMissing", "valid", "validNoIbl",
    "validDefault" }

FileOf(name) ==
  CASE name = "nofile" -> DroppedFile("nofile", Undefined, NotArray, NotArray, Undefined)
    [] name = "garbage" -> DroppedFile("garbage", Undefined, NotArray, NotArray, Undefined)
    [] name = "null" -> DroppedFile("null", Undefined, NotArray, NotArray, Undefined)
    [] name = "number" -> DroppedFile("number", Undefined, NotArray, NotArray, Undefined)
    [] name = "version2" ->
         DroppedFile("object", Num(2), Entries(selectedLights), Entries(twoCameras), Num(1))
    [] name = "versionStr" ->
         DroppedFile("object", Str, Entries(selectedLights), Entries(twoCameras), Num(1))
    [] name = "noVersion" ->
         DroppedFile("object", Undefined, Entries(selectedLights), Entries(twoCameras), Num(1))
    [] name = "lightsObject" ->
         DroppedFile("object", Num(1), NotArray, Entries(twoCameras), Num(1))
    [] name = "camerasMissing" ->
         DroppedFile("object", Num(1), Entries(selectedLights), NotArray, Num(1))
    [] name = "valid" ->
         DroppedFile("object", Num(1), Entries(selectedLights), Entries(twoCameras), Num(1))
    [] name = "validNoIbl" ->
         DroppedFile("object", Num(1), Entries(reorderedLights), Entries(defaultCameras),
                     Undefined)
    [] OTHER ->
         DroppedFile("object", Num(1), Entries(defaultLights), Entries(defaultCameras), Num(0))

\* the parsed data handed on as a snapshot
FileSnapshot(file) ==
  [version |-> 1, lights |-> file.lights.v, cameras |-> file.cameras.v,
   iblRotation |-> file.iblRotation]

Dropped(st, raised) == [st |-> st, toast |-> raised]

\* the variant that does not look at data.version
handleDrop_AnyVersion(st, file) ==
  IF file.t = "nofile" THEN Dropped(st, "none")
  ELSE IF file.t \in {"garbage", "null"} THEN Dropped(st, "error")
  ELSE IF /\ file.t = "object"
          /\ file.lights.t = "array"
          /\ file.cameras.t = "array"
    THEN Dropped(applySceneSnapshotAtom(st, FileSnapshot(file)), "success")
  ELSE Dropped(st, "error")

\* handleDrop with reader.onload; JSON.parse throws on text that is not
\* JSON and data.version throws on null, both inside the try
handleDrop(st, file) ==
  IF file.t = "nofile" THEN Dropped(st, "none")
  ELSE IF file.t \in {"garbage", "null"} THEN Dropped(st, "error")
  ELSE IF /\ file.t = "object"
          /\ file.version = Num(1)
          /\ file.lights.t = "array"
          /\ file.cameras.t = "array"
    THEN Dropped(applySceneSnapshotAtom(st, FileSnapshot(file)), "success")
  ELSE Dropped(st, "error")

\* the drop handler of App.tsx, which writes lights and cameras directly
handleDropApp(st, file) ==
  IF file.t = "nofile" THEN Dropped(st, "none")
  ELSE IF file.t \in {"garbage", "null"} THEN Dropped(st, "error")
  ELSE IF /\ file.t = "object"
          /\ file.version = Num(1)
          /\ file.lights.t = "array"
          /\ file.cameras.t = "array"
    THEN Dropped(camerasAtom(lightsAtom(st, file.lights.v), file.cameras.v), "success")
  ELSE Dropped(st, "error")

DStep(name, file, st, raised) ==
  /\ steps < MaxSteps
  /\ steps' = steps + 1
  /\ lastOp' = Op(name, defaultSceneSnapshot, file)
  /\ StoreBecomes(st)
  /\ toast' = raised
  /\ UNCHANGED << mode, persistence, urlSync, wrote, burst, calc >>

DEditLights == \E v \in LightsInputs :
  DStep("setLights", "nofile", lightsAtom(Store, v), "none")

DEditIblRotation == \E v \in IblInputs :
  DStep("setIblRotation", "nofile", iblRotationAtom(Store, v), "none")

DCommit == DStep("commit", "nofile", commitSceneHistoryAtom(Store), "none")

DUndo == DStep("undo", "nofile", undoSceneAtom(Store), "none")

DropFile == \E f \in FileNames :
  DStep("drop", f, handleDrop(Store, FileOf(f)).st, handleDrop(Store, FileOf(f)).toast)

DropFileOnApp == \E f \in FileNames :
  DStep("dropApp", f, handleDropApp(Store, FileOf(f)).st,
        handleDropApp(Store, FileOf(f)).toast)

NextDrop ==
  \/ DEditLights
  \/ DEditIblRotation
  \/ DCommit
  \/ DUndo
  \/ DropFile
  \/ DropFileOnApp

SpecDrop == Init /\ [][NextDrop]_vars

\* files that fail to parse, whose version is not 1, or whose lights or
\* cameras is not an array
RejectedFiles ==
  { "garbage", "null", "number", "version2", "versionStr", "noVersion",
    "lightsObject", "camerasMissing" }

\* C11: a drop of a file that fails to parse, has a version other than 1
\* or has non-array lights or cameras leaves lights, cameras, iblRotation,
\* the dirty flag and the history as they were and raises an error
\* notification.
RejectedDropChangesNothing ==
  [][(lastOp'.op \in {"drop", "dropApp"} /\ lastOp'.payload \in RejectedFiles) =>
       /\ UNCHANGED storeVars
       /\ toast' = "error"]_vars

\* a rejected file was dropped on an edited scene with undo history
RejectedDropOnEditedScene ==
  /\ lastOp.op = "drop"
  /\ lastOp.payload = "version2"
  /\ toast = "error"
  /\ sceneDirty
  /\ Len(history.entries) > 1

\* ------------------------------------------------------------------------
\* The durable store is unavailable: every read and every write rejects
\* ------------------------------------------------------------------------
\* the load effect without its catch branch
loadEffectFailed_NoFallback(st) == st

\* the catch branch of the load effect: openDatabase or the read rejected
loadEffectFailed(st) == hydrateSceneHistoryAtom(st, NullPayload)

IdbLoadFails ==
  /\ persistence.phase = "loading"
  /\ SyncStep("loadFails", loadEffectFailed(Store), mode, urlSync,
              [persistence EXCEPT !.phase = "ready"], {"lights", "cameras"},
              FALSE, FALSE)

\* the promise of an issued idbSet rejects; .catch logs a warning
IdbWriteFails ==
  /\ persistence.issued.t = "write"
  /\ persistence' = [persistence EXCEPT !.issued.t = "failed"]
  /\ lastOp' = Op("writeFails", defaultSceneSnapshot, "null")
  /\ wrote' = NothingWritten
  /\ burst' = 0
  /\ toast' = "none"
  /\ threw' = FALSE
  /\ UNCHANGED << storeVars, steps, mode, urlSync, calc >>

NextOffline ==
  \/ Mount
  \/ UrlRender
  \/ IdbLoadFails
  \/ IdbWriteFails
  \/ EditLights
  \/ UserUndo
  \/ UserRedo
  \/ DropSettings
  \/ PointerUp
  \/ CommitTimerFires

SpecOffline == Init /\ [][NextOffline]_vars

\* C12: with the store unavailable the failed read ends in hydrate(null):
\* the history becomes the single entry built from the live state, with
\* hydrated = true and no exception; from then on a commit of a changed
\* scene appends, undo and redo move the index and restore the entry; a
\* failing write leaves the store atoms as they were.
StartupSurvivesStoreFailure ==
  [][/\ lastOp'.op = "loadFails" =>
          /\ history' = [entries |-> << Live >>, index |-> 0, hydrated |-> TRUE]
          /\ Live' = Live
          /\ ~threw'
     /\ (persistence.phase = "ready" /\ lastOp'.op = "commitTimer"
           /\ ~snapshotsEqual(Current, Live)) =>
          /\ history'.entries =
               Append(SubSeq(history.entries, 1, history.index + 1), Live)
          /\ history'.index = history.index + 1
     /\ (persistence.phase = "ready" /\ lastOp'.op = "undo" /\ history.index > 0) =>
          /\ history'.index = history.index - 1
          /\ Live' = Current'
     /\ (persistence.phase = "ready" /\ lastOp'.op = "redo"
           /\ history.index < Len(history.entries) - 1) =>
          /\ history'.index = history.index + 1
          /\ Live' = Current'
     /\ persistence.phase = "ready" => history.hydrated
     /\ lastOp'.op = "writeFails" => UNCHANGED storeVars]_vars

\* after the failed read a commit was pushed and its write failed
WriteFailedAfterFailedRead ==
  /\ lastOp.op = "writeFails"
  /\ history.hydrated
  /\ Len(history.entries) > 1
  /\ persistence.issued.t = "failed"

\* ------------------------------------------------------------------------
\* The URL codec: encodeParam, decodeParam, parseParam
\* ------------------------------------------------------------------------
\* Strings are sequences of UTF-16 code units, byte strings sequences of
\* 0..255.  JSON values are [t, v]: Null, [bool], Num and Half, strings,
\* arrays of values and objects as sequences of <<key, value>>.
JsBool(b) == [t |-> "bool", v |-> b]
JsString(units) == [t |-> "str", v |-> units]
JsArray(items) == [t |-> "array", v |-> items]
JsObject(members) == [t |-> "object", v |-> members]

MaxDigits == 3

RECURSIVE Digits(_, _)
\* the decimal digits of n >= 0, at most k of them
Digits(n, k) ==
  IF n < 10 \/ k <= 1 THEN << 48 + (n % 10) >>
  ELSE Digits(n \div 10, k - 1) \o << 48 + (n % 10) >>

\* Number.prototype.toString as JSON.stringify uses it
NumberText(x) ==
  LET magnitude == Digits(IF x.v < 0 THEN 0 - x.v ELSE x.v, MaxDigits)
      sign == IF x.v < 0 THEN << 45 >> ELSE << >>
  IN  sign \o magnitude \o (IF x.t = "half" THEN << 46, 53 >> ELSE << >>)

RECURSIVE JoinJson(_, _)
RECURSIVE JSONStringify(_)
\* the members of an array or object, separated by commas
JoinJson(items, isObject) ==
  IF items = << >> THEN << >>
  ELSE
    LET first ==
          IF isObject
            THEN << 34 >> \o Head(items)[1] \o << 34, 58 >> \o JSONStringify(Head(items)[2])
            ELSE JSONStringify(Head(items))
    IN  first \o (IF Len(items) > 1 THEN << 44 >> ELSE << >>)
              \o JoinJson(Tail(items), isObject)

JSONStringify(x) ==
  CASE x.t = "null" -> << 110, 117, 108, 108 >>
    [] x.t = "bool" -> IF x.v THEN << 116, 114, 117, 101 >>
                              ELSE << 102, 97, 108, 115, 101 >>
    [] x.t \in {"num", "half"} -> NumberText(x)
    [] x.t = "str" -> << 34 >> \o x.v \o << 34 >>
    [] x.t = "array" -> << 91 >> \o JoinJson(x.v, FALSE) \o << 93 >>
    [] OTHER -> << 123 >> \o JoinJson(x.v, TRUE) \o << 125 >>

RECURSIVE TextEncode(_)
\* new TextEncoder().encode: UTF-8 of the code units (no surrogates here)
TextEncode(units) ==
  IF units = << >> THEN << >>
  ELSE
    LET c == Head(units)
    IN  (IF c < 128 THEN << c >>
         ELSE IF c < 2048 THEN << 192 + (c \div 64), 128 + (c % 64) >>
         ELSE << 224 + (c \div 4096), 128 + ((c \div 64) % 64), 128 + (c % 64) >>)
        \o TextEncode(Tail(units))

RECURSIVE TextDecode(_)
\* new TextDecoder().decode: malformed input becomes U+FFFD
TextDecode(bytes) ==
  IF bytes = << >> THEN << >>
  ELSE
    LET b == Head(bytes)
        cont(i) == Len(bytes) >= i /\ bytes[i] >= 128 /\ bytes[i] < 192
    IN  IF b < 128 THEN << b >> \o TextDecode(Tail(bytes))
        ELSE IF b >= 194 /\ b < 224 /\ cont(2)
          THEN << (b - 192) * 64 + (bytes[2] - 128) >>
               \o TextDecode(SubSeq(bytes, 3, Len(bytes)))
        ELSE IF b >= 224 /\ b < 240 /\ cont(2) /\ cont(3)
                /\ (b - 224) * 4096 + (bytes[2] - 128) * 64 >= 2048
          THEN << (b - 224) * 4096 + (bytes[2] - 128) * 64 + (bytes[3] - 128) >>
               \o TextDecode(SubSeq(bytes, 4, Len(bytes)))
        ELSE << 65533 >> \o TextDecode(Tail(bytes))

\* the base64 alphabet: A-Z a-z 0-9 + /
Base64Char(i) ==
  IF i < 26 THEN 65 + i
  ELSE IF i < 52 THEN 97 + (i - 26)
  ELSE IF i < 62 THEN 48 + (i - 52)
  ELSE IF i = 62 THEN 43 ELSE 47

IsBase64Char(c) ==
  \/ c >= 65 /\ c <= 90
  \/ c >= 97 /\ c <= 122
  \/ c >= 48 /\ c <= 57
  \/ c = 43
  \/ c = 47

Base64Value(c) ==
  IF c >= 65 /\ c <= 90 THEN c - 65
  ELSE IF c >= 97 /\ c <= 122 THEN c - 97 + 26
  ELSE IF c >= 48 /\ c <= 57 THEN c - 48 + 52
  ELSE IF c = 43 THEN 62 ELSE 63

RECURSIVE btoa(_)
btoa(b) ==
  IF Len(b) = 0 THEN << >>
  ELSE IF Len(b) = 1
    THEN << Base64Char(b[1] \div 4), Base64Char((b[1] % 4) * 16), 61, 61 >>
  ELSE IF Len(b) = 2
    THEN << Base64Char(b[1] \div 4),
            Base64Char((b[1] % 4) * 16 + (b[2] \div 16)),
            Base64Char((b[2] % 16) * 4), 61 >>
  ELSE << Base64Char(b[1] \div 4),
          Base64Char((b[1] % 4) * 16 + (b[2] \div 16)),
          Base64Char((b[2] % 16) * 4 + (b[3] \div 64)),
          Base64Char(b[3] % 64) >> \o btoa(SubSeq(b, 4, Len(b)))

\* atob accepts a text whose length is a multiple of 4, of alphabet
\* characters with at most two = at the very end
atobAccepts(t) ==
  /\ Len(t) % 4 = 0
  /\ \A i \in DOMAIN t :
       \/ IsBase64Char(t[i])
       \/ /\ t[i] = 61
          /\ i >= Len(t) - 1
          /\ \A j \in i..Len(t) : t[j] = 61

RECURSIVE atob(_)
atob(t) ==
  IF Len(t) = 0 THEN << >>
  ELSE
    LET v1 == Base64Value(t[1])
        v2 == Base64Value(t[2])
        v3 == Base64Value(t[3])
        v4 == Base64Value(t[4])
        rest == atob(SubSeq(t, 5, Len(t)))
    IN  IF t[3] = 61 THEN << v1 * 4 + (v2 \div 16) >>
        ELSE IF t[4] = 61
          THEN << v1 * 4 + (v2 \div 16), (v2 % 16) * 16 + (v3 \div 4) >>
        ELSE << v1 * 4 + (v2 \div 16), (v2 % 16) * 16 + (v3 \div 4),
                (v3 % 4) * 64 + v4 >> \o rest

\* text.replace(/x/g, y) for single characters
ReplaceAll(text, x, y) == [i \in DOMAIN text |-> IF text[i] = x THEN y ELSE text[i]]

RECURSIVE StripTrailingPad(_)
\* .replace(/=+$/g, "")
StripTrailingPad(text) ==
  IF text # << >> /\ text[Len(text)] = 61
    THEN StripTrailingPad(SubSeq(text, 1, Len(text) - 1))
    ELSE text

\* "=".repeat(n)
Repeat61(n) == [i \in 1..n |-> 61]

encodeParam(value) ==
  StripTrailingPad(
    ReplaceAll(ReplaceAll(btoa(TextEncode(JSONStringify(value))), 43, 45), 47, 95))

\* the values the codec is exercised on: scalars, strings with characters
\* of one, two and three UTF-8 bytes and with > and ? (whose base64 holds
\* + and /), empty and nested arrays, objects with nested numeric fields
CodecAlphabet == { 97, 62, 63, 233, 12354 }

MaxStringLen == 2

CodecStrings ==
  UNION { [1..n -> CodecAlphabet] : n \in 0..MaxStringLen }

CodecScalars ==
  { Null, JsBool(TRUE), JsBool(FALSE), Num(0), Num(5), Num(0 - 1), Num(120),
    Half(1), Half(0 - 3) } \cup { JsString(u) : u \in CodecStrings }

CodecValues ==
  CodecScalars
    \cup { JsArray(<< >>), JsArray(<< JsArray(<< >>) >>), JsObject(<< >>) }
    \cup { JsArray(<< a, b >>) : a \in { Num(5), Half(1), Null },
                                b \in { JsString(<< 233 >>), JsArray(<< >>) } }
    \cup { JsObject(<< << << 120 >>, n >>,
                       << << 112 >>, JsObject(<< << << 121, 63 >>, n >> >>) >> >>)
             : n \in { Num(0), Half(0 - 3), Num(120) } }

\* JSON.parse on the texts JSON.stringify produces for CodecValues; any
\* other text is a SyntaxError
JSONParse(text) ==
  IF \E x \in CodecValues : JSONStringify(x) = text
    THEN [threw |-> FALSE, value |-> CHOOSE x \in CodecValues : JSONStringify(x) = text]
    ELSE [threw |-> TRUE, value |-> Undefined]

\* null stands for both a decoded null and a failure
decodeParam(raw) ==
  LET padded == raw \o Repeat61((4 - (Len(raw) % 4)) % 4)
      base64 == ReplaceAll(ReplaceAll(padded, 45, 43), 95, 47)
  IN  IF ~atobAccepts(base64) THEN Null
      ELSE
        LET parsed == JSONParse(TextDecode(atob(base64)))
        IN  IF parsed.threw THEN Null ELSE parsed.value

\* params.get(key) is raw; an absent or empty parameter is << >>
parseParam(raw) ==
  IF raw = << >> THEN Undefined
  ELSE
    LET decoded == decodeParam(raw)
    IN  IF decoded # Null THEN decoded
        ELSE
          LET legacy == JSONParse(raw)
          IN  IF legacy.threw THEN Undefined ELSE legacy.value

\* all other variables stay as constructed
InitCodec ==
  /\ AtRest
  /\ calc \in { [fn |-> "codec", phase |-> "value", x |-> x, token |-> << >>,
                 out |-> Undefined] : x \in CodecValues }

CalcStep(next) ==
  /\ calc' = next
  /\ UNCHANGED << storeVars, threw, lastOp, steps, syncVars >>

EncodeParam ==
  /\ calc.phase = "value"
  /\ CalcStep([calc EXCEPT !.phase = "token", !.token = encodeParam(calc.x)])

DecodeParam ==
  /\ calc.phase = "token"
  /\ CalcStep([calc EXCEPT !.phase = "decoded", !.out = decodeParam(calc.token)])

ParseParam ==
  /\ calc.phase = "token"
  /\ CalcStep([calc EXCEPT !.phase = "parsed", !.out = parseParam(calc.token)])

NextCodec ==
  \/ EncodeParam
  \/ DecodeParam
  \/ ParseParam

SpecCodec == InitCodec /\ [][NextCodec]_vars

\* C13: for every value x, what parseParam and decodeParam read from the
\* token encodeParam made of x equals x, and the token holds none of the
\* characters + / =.
CodecRoundTrips ==
  /\ calc.phase \in {"decoded", "parsed"} => calc.out = calc.x
  /\ calc.phase # "value" =>
       \A i \in DOMAIN calc.token : calc.token[i] \notin {43, 47, 61}

\* ------------------------------------------------------------------------
\* The hemisphere resampler: buildMatcapUint8RGBAFromEquirect and
\* buildMatcapFloatRGB
\* ------------------------------------------------------------------------
\* With d = outputSize - 1 the code's nx is px / d for px = 2x + 1 -
\* outputSize (radius = d / 2, cx = outputSize / 2), likewise ny = py / d.
\* The divisions, squares and the sum are exact in double precision for
\* the positions that matter here: 0, 1 and -1.
MaxOutputSize == 5

SourceHeights == { 2, 5 }

PixelOffset(x, outputSize) == 2 * x + 1 - outputSize

\* r2 > 1
OutsideDisc(px, py, d) == px * px + py * py > d * d

\* v = clamp(acos(clamp(-ny, -1, 1)) / pi, 0, 1): acos is 0 at 1, pi / 2
\* at 0 and pi at -1, and strictly between elsewhere.  v is twice / 2 when
\* exact, else strictly between (below - 1) / 2 and below / 2.
ExactV(twice) == [t |-> "exact", twice |-> twice]
OpenV(below) == [t |-> "open", twice |-> below]

\* the variant that measures the angle from the viewing axis (acos of nz)
MatcapV_FromAxis(px, py, d) ==
  IF px = 0 /\ py = 0 THEN ExactV(0)
  ELSE IF px * px + py * py = d * d THEN ExactV(1)
  ELSE OpenV(1)

MatcapV(px, py, d) ==
  IF py <= 0 - d THEN ExactV(0)
  ELSE IF py < 0 THEN OpenV(1)
  ELSE IF py = 0 THEN ExactV(1)
  ELSE IF py < d THEN OpenV(2)
  ELSE ExactV(2)

\* y0 = floor(v * maxY) in sampleBilinear; for an inexact v the row lies
\* in the half the bound names and is not computed here
SourceRow(v, sourceHeight) ==
  IF v.t = "exact" THEN (v.twice * (sourceHeight - 1)) \div 2 ELSE 0 - 1

BackgroundColor(builder) ==
  IF builder = "uint8" THEN << 4, 7, 10, 255 >> ELSE << 0, 0, 0 >>

\* the body of the loop for the output pixel (x, y)
MatcapPixel(builder, outputSize, sourceHeight, x, y) ==
  LET d == outputSize - 1
      px == PixelOffset(x, outputSize)
      py == PixelOffset(y, outputSize)
  IN  IF OutsideDisc(px, py, d)
        THEN [kind |-> "background", color |-> BackgroundColor(builder),
              v |-> ExactV(0), row |-> 0 - 1, px |-> px, py |-> py, d |-> d]
        ELSE [kind |-> "sampled", color |-> << >>,
              v |-> MatcapV(px, py, d),
              row |-> SourceRow(MatcapV(px, py, d), sourceHeight),
              px |-> px, py |-> py, d |-> d]

NoPixel ==
  [kind |-> "none", color |-> << >>, v |-> ExactV(0), row |-> 0 - 1,
   px |-> 0, py |-> 0, d |-> 0]

InitMatcap ==
  /\ AtRest
  /\ calc \in { [fn |-> "matcap", builder |-> b, outputSize |-> n,
                 sourceHeight |-> h, x |-> 0, y |-> 0, pixel |-> NoPixel] :
                b \in {"uint8", "float"}, n \in 2..MaxOutputSize,
                h \in SourceHeights }

\* one iteration of the loops over y and x
FillPixel(builder) ==
  /\ calc.builder = builder
  /\ calc.y < calc.outputSize
  /\ CalcStep([calc EXCEPT
       !.pixel = MatcapPixel(builder, calc.outputSize, calc.sourceHeight,
                             calc.x, calc.y),
       !.x = IF calc.x + 1 < calc.outputSize THEN calc.x + 1 ELSE 0,
       !.y = IF calc.x + 1 < calc.outputSize THEN calc.y ELSE calc.y + 1])

BuildMatcapUint8 == FillPixel("uint8")

BuildMatcapFloat == FillPixel("float")

NextMatcap ==
  \/ BuildMatcapUint8
  \/ BuildMatcapFloat

SpecMatcap == InitMatcap /\ [][NextMatcap]_vars

AtDiscCenter == calc.pixel.kind # "none" /\ calc.pixel.px = 0 /\ calc.pixel.py = 0

OnDiscBoundary ==
  /\ calc.pixel.kind # "none"
  /\ calc.pixel.px * calc.pixel.px + calc.pixel.py * calc.pixel.py
       = calc.pixel.d * calc.pixel.d

\* C14 as stated: the pixel at the disc center is sampled at latitude 0,
\* the top row of the source (v = 0), for every outputSize.
CenterSamplesPole ==
  AtDiscCenter =>
    /\ calc.pixel.kind = "sampled"
    /\ calc.pixel.v = ExactV(0)
    /\ calc.pixel.row = 0

\* C14 amended: the pixel at the disc center is sampled at the angle
\* pi / 2 from the pole, v = 1 / 2, the middle row floor((height - 1) / 2)
\* of the source, for every outputSize; v = 0 belongs to the top of the
\* disc (ny = -1).
CenterSamplesEquator ==
  /\ AtDiscCenter =>
       /\ calc.pixel.kind = "sampled"
       /\ calc.pixel.v = ExactV(1)
       /\ calc.pixel.row = (calc.sourceHeight - 1) \div 2
  /\ (calc.pixel.kind = "sampled" /\ calc.pixel.v = ExactV(0)) =>
       /\ calc.pixel.px = 0
       /\ calc.pixel.py = 0 - calc.pixel.d

\* the center pixel of an image of odd size larger than 3 was filled
CenterPixelFilled ==
  /\ AtDiscCenter
  /\ calc.outputSize = MaxOutputSize - ((MaxOutputSize + 1) % 2)
  /\ calc.sourceHeight = 5
  /\ calc.pixel.row = 2

\* C15: a pixel exactly on the unit circle gets the background color and
\* is never sampled.
BoundaryIsBackground ==
  OnDiscBoundary =>
    /\ calc.pixel.kind = "background"
    /\ calc.pixel.color = BackgroundColor(calc.builder)

\* ------------------------------------------------------------------------
\* encodeRleChannel: the run-length encoder of the Radiance HDR export
\* ------------------------------------------------------------------------
RUN_LIMIT == 127

LITERAL_LIMIT == 128

MIN_RUN == 4

MaxScanline == 6

\* the variant that does not stop a run at 127 bytes
RunLength_NoCap(scanline, at, n) ==
  LET goesOn(k) == at + k < Len(scanline) /\ scanline[at + 1] = scanline[at + k + 1]
  IN  CHOOSE r \in n..Len(scanline) :
        /\ \A k \in n..(r - 1) : goesOn(k)
        /\ ~goesOn(r)

\* the inner while loop that grows runLength (and probeRunLength) from n:
\* the first value at which its condition fails; at is the 0-based
\* position of the first byte
RunLength(scanline, at, n) ==
  LET goesOn(k) ==
        /\ at + k < Len(scanline)
        /\ k < RUN_LIMIT
        /\ scanline[at + 1] = scanline[at + k + 1]
  IN  CHOOSE r \in n..RUN_LIMIT :
        /\ \A k \in n..(r - 1) : goesOn(k)
        /\ ~goesOn(r)

\* the while loop that grows literalCount from n: the first value at which
\* its condition fails or the probe finds a run
LiteralCount(scanline, literalStart, n) ==
  LET goesOn(k) == literalStart + k < Len(scanline) /\ k < LITERAL_LIMIT
      breaks(k) == RunLength(scanline, literalStart + k, 1) >= MIN_RUN
  IN  CHOOSE c \in n..LITERAL_LIMIT :
        /\ \A k \in n..(c - 1) : goesOn(k) /\ ~breaks(k)
        /\ ~goesOn(c) \/ breaks(c)

\* one pass of the outer while loop at cursor: the bytes pushed to out,
\* the packet they form and the new cursor
encodeRlePacket(scanline, cursor) ==
  LET runLength == RunLength(scanline, cursor, 1)
      literalCount == LiteralCount(scanline, cursor, 0)
  IN  IF runLength >= MIN_RUN
        THEN [bytes |-> << 128 + runLength, scanline[cursor + 1] >>,
              packet |-> [run |-> TRUE, count |-> runLength, start |-> cursor],
              cursor |-> cursor + runLength]
      ELSE IF literalCount = 0
        THEN [bytes |-> << 1, scanline[cursor + 1] >>,
              packet |-> [run |-> FALSE, count |-> 1, start |-> cursor],
              cursor |-> cursor + 1]
      ELSE [bytes |-> << literalCount >>
                        \o SubSeq(scanline, cursor + 1, cursor + literalCount),
            packet |-> [run |-> FALSE, count |-> literalCount, start |-> cursor],
            cursor |-> cursor + literalCount]

Constant(n, byte) == [i \in 1..n |-> byte]

Alternating(n) == [i \in 1..n |-> IF i % 2 = 0 THEN 200 ELSE 7]

\* every scanline over two byte values up to MaxScanline bytes, and long
\* ones that reach the limits of both packet kinds
Scanlines ==
  UNION { [1..n -> {0, 200}] : n \in 0..MaxScanline }
    \cup { Alternating(LITERAL_LIMIT + a) \o Constant(RUN_LIMIT + b, 7) :
             a \in 1..2, b \in 3..4 }
    \cup { Constant(RUN_LIMIT + b, 200) \o Alternating(LITERAL_LIMIT - a) :
             a \in 0..1, b \in 0..1 }

InitRle ==
  /\ AtRest
  /\ calc \in { [fn |-> "rle", scanline |-> s, cursor |-> 0, out |-> << >>,
                 packets |-> << >>] : s \in Scanlines }

RleStep(isRun) ==
  LET pass == encodeRlePacket(calc.scanline, calc.cursor)
  IN  /\ calc.cursor < Len(calc.scanline)
      /\ pass.packet.run = isRun
      /\ CalcStep([calc EXCEPT !.cursor = pass.cursor,
                               !.out = calc.out \o pass.bytes,
                               !.packets = Append(calc.packets, pass.packet)])

EmitRunPacket == RleStep(TRUE)

EmitLiteralPacket == RleStep(FALSE)

NextRle ==
  \/ EmitRunPacket
  \/ EmitLiteralPacket

SpecRle == InitRle /\ [][NextRle]_vars

RECURSIVE ExpandRle(_)
\* a reader of the packet stream: a count byte above 128 repeats the next
\* byte count - 128 times, any other count byte is followed by that many
\* literal bytes
ExpandRle(bytes) ==
  IF bytes = << >> THEN << >>
  ELSE IF bytes[1] > 128
    THEN Constant(bytes[1] - 128, bytes[2]) \o ExpandRle(SubSeq(bytes, 3, Len(bytes)))
    ELSE SubSeq(bytes, 2, bytes[1] + 1)
           \o ExpandRle(SubSeq(bytes, bytes[1] + 2, Len(bytes)))

\* four or more identical bytes begin at the 0-based position at
RunStartsAt(scanline, at) ==
  /\ at + 4 <= Len(scanline)
  /\ \A k \in 1..3 : scanline[at + 1] = scanline[at + k + 1]

\* C16: the bytes emitted so far are run packets (128 + c, value) with
\* 4 <= c <= 127 and literal packets (c, b1..bc) with 1 <= c <= 128, every
\* emitted byte fits a byte, their expansion in order is the part of the
\* scanline consumed so far (the whole scanline at the end), and no
\* literal packet covers a position where four or more identical bytes
\* begin.
RlePacketsReproduceScanline ==
  calc.fn = "rle" =>
    /\ ExpandRle(calc.out) = SubSeq(calc.scanline, 1, calc.cursor)
    /\ calc.cursor <= Len(calc.scanline)
    /\ \A i \in DOMAIN calc.out : calc.out[i] \in 0..255
    /\ \A i \in DOMAIN calc.packets :
         LET packet == calc.packets[i]
         IN  IF packet.run
               THEN /\ packet.count >= 4
                    /\ packet.count <= 127
               ELSE /\ packet.count >= 1
                    /\ packet.count <= 128
                    /\ \A at \in packet.start..(packet.start + packet.count - 1) :
                         ~RunStartsAt(calc.scanline, at)

\* a scanline was encoded to its end with a run of 127 and a literal of 128
LongestPacketsEmitted ==
  /\ calc.fn = "rle"
  /\ calc.cursor = Len(calc.scanline)
  /\ \E i \in DOMAIN calc.packets :
       calc.packets[i].run /\ calc.packets[i].count = 127
  /\ \E i \in DOMAIN calc.packets :
       ~calc.packets[i].run /\ calc.packets[i].count = 128

\* ------------------------------------------------------------------------
\* The OpenEXR writer: offset table and scanline blocks (the writer is not
\* among the sources; this follows the description of the file layout)
\* ------------------------------------------------------------------------
MaxExrHeight == 33

ZIP_BLOCK_LINES == 16

RECURSIVE LittleEndian(_, _)
\* n as k bytes, least significant first
LittleEndian(n, k) ==
  IF k = 0 THEN << >> ELSE << n % 256 >> \o LittleEndian(n \div 256, k - 1)

RECURSIVE FromLittleEndian(_)
FromLittleEndian(bytes) ==
  IF bytes = << >> THEN 0 ELSE bytes[1] + 256 * FromLittleEndian(Tail(bytes))

\* magic 20000630, version 2 and the null byte that ends the attributes
\* (the attribute records themselves are left out)
ExrHeader == LittleEndian(20000630, 4) \o LittleEndian(2, 4) \o << 0 >>

ExrLinesPerBlock(compression) == IF compression = "zip" THEN ZIP_BLOCK_LINES ELSE 1

ExrBlockCount(height, compression) ==
  (height + ExrLinesPerBlock(compression) - 1) \div ExrLinesPerBlock(compression)

\* bytes of one uncompressed scanline of a one-pixel-wide image: four
\* half-float channels
ExrLineBytes == 8

RECURSIVE ExrBlocksSize(_)
\* the bytes taken by blocks stored as (y, byteCount, payload)
ExrBlocksSize(byteCounts) ==
  IF byteCounts = << >> THEN 0
  ELSE 8 + Head(byteCounts) + ExrBlocksSize(Tail(byteCounts))

\* the variant that counts offsets from the start of the block data
ExrBlockOffset_FromData(byteCounts, i) ==
  ExrBlocksSize(SubSeq(byteCounts, 1, i - 1))

\* the file offset of block i
ExrBlockOffset(byteCounts, i) ==
  Len(ExrHeader) + 8 * Len(byteCounts) + ExrBlocksSize(SubSeq(byteCounts, 1, i - 1))

RECURSIVE ExrOffsetTable(_, _)
ExrOffsetTable(byteCounts, i) ==
  IF i > Len(byteCounts) THEN << >>
  ELSE LittleEndian(ExrBlockOffset(byteCounts, i), 8) \o ExrOffsetTable(byteCounts, i + 1)

RECURSIVE ExrBlocks(_, _, _)
ExrBlocks(byteCounts, i, compression) ==
  IF i > Len(byteCounts) THEN << >>
  ELSE LittleEndian((i - 1) * ExrLinesPerBlock(compression), 4)
         \o LittleEndian(byteCounts[i], 4)
         \o [k \in 1..byteCounts[i] |-> 0]
         \o ExrBlocks(byteCounts, i + 1, compression)

ExrFile(byteCounts, compression) ==
  ExrHeader \o ExrOffsetTable(byteCounts, 1) \o ExrBlocks(byteCounts, 1, compression)

\* sizes a deflated block can have here
ZipSizes == { 3, 5 }

InitExr ==
  /\ AtRest
  /\ calc \in { [fn |-> "exr", height |-> h, compression |-> c,
                 byteCounts |-> << >>, file |-> << >>] :
                h \in 1..MaxExrHeight, c \in {"none", "zip"} }

\* the payload of the next block is produced
ExrEncodeBlock == \E size \in ZipSizes :
  LET lines == IF calc.compression = "zip"
                 THEN IF (Len(calc.byteCounts) + 1) * ZIP_BLOCK_LINES <= calc.height
                        THEN ZIP_BLOCK_LINES
                        ELSE calc.height - Len(calc.byteCounts) * ZIP_BLOCK_LINES
                 ELSE 1
  IN  /\ calc.file = << >>
      /\ Len(calc.byteCounts) < ExrBlockCount(calc.height, calc.compression)
      /\ CalcStep([calc EXCEPT !.byteCounts =
           Append(calc.byteCounts,
                  IF calc.compression = "zip" THEN size ELSE lines * ExrLineBytes)])

\* header, offset table and blocks are written out
ExrWriteFile ==
  /\ calc.file = << >>
  /\ Len(calc.byteCounts) = ExrBlockCount(calc.height, calc.compression)
  /\ CalcStep([calc EXCEPT !.file = ExrFile(calc.byteCounts, calc.compression)])

NextExr ==
  \/ ExrEncodeBlock
  \/ ExrWriteFile

SpecExr == InitExr /\ [][NextExr]_vars

\* the 4-byte and 8-byte little-endian numbers at a 0-based file offset
ExrU32At(file, offset) == FromLittleEndian(SubSeq(file, offset + 1, offset + 4))
ExrU64At(file, offset) == FromLittleEndian(SubSeq(file, offset + 1, offset + 8))

\* C17: a written file groups the scanlines in blocks of 16 lines under zip
\* and of 1 line uncompressed; right after the header comes one 8-byte
\* little-endian offset per block, top to bottom, and each offset is the
\* file position of a block (y, byteCount, payload), the blocks filling
\* the rest of the file without gaps.
ExrOffsetTablePointsAtBlocks ==
  (calc.fn = "exr" /\ calc.file # << >>) =>
    LET n == IF calc.compression = "zip" THEN (calc.height + 15) \div 16
                                        ELSE calc.height
        lines == IF calc.compression = "zip" THEN 16 ELSE 1
        entry(i) == ExrU64At(calc.file, Len(ExrHeader) + 8 * (i - 1))
        byteCount(i) == ExrU32At(calc.file, entry(i) + 4)
    IN  /\ Len(calc.byteCounts) = n
        /\ entry(1) = Len(ExrHeader) + 8 * n
        /\ \A i \in 1..n :
             /\ ExrU32At(calc.file, entry(i)) = (i - 1) * lines
             /\ byteCount(i) = calc.byteCounts[i]
             /\ IF i < n THEN entry(i + 1) = entry(i) + 8 + byteCount(i)
                         ELSE Len(calc.file) = entry(i) + 8 + byteCount(i)

\* a zip file of more than two blocks, the last one partial, was written
ExrThreeZipBlocksWritten ==
  /\ calc.fn = "exr"
  /\ calc.file # << >>
  /\ calc.compression = "zip"
  /\ Len(calc.byteCounts) >= 3
  /\ calc.height % 16 # 0

\* ------------------------------------------------------------------------
\* Branching off after undo
\* ------------------------------------------------------------------------
canUndoSceneAtom(st) == st.history.index > 0

canRedoSceneAtom(st) == st.history.index < Len(st.history.entries) - 1

\* C18: a push of a snapshot that differs from the entry at index k, made
\* while k < n - 1, leaves the old entries 0..k followed by the new
\* snapshot, index k + 1 and nothing to redo.
PushDiscardsRedoBranch ==
  [][(/\ lastOp'.op = "push"
      /\ canRedoSceneAtom(Store)
      /\ ~DeepEqual(lastOp'.snapshot, Current))
       => /\ history'.entries =
               Append(SubSeq(history.entries, 1, history.index + 1), lastOp'.snapshot)
          /\ history'.index = history.index + 1
          /\ ~canRedoSceneAtom(Store')]_vars

\* ------------------------------------------------------------------------
\* Undo and redo
\* ------------------------------------------------------------------------
\* C19: undo at index 0 and redo at the last index change nothing: the
\* entries, the index, hydrated, the live lights, cameras and rotation and
\* the dirty flag keep their values, uncommitted live edits included.
UndoRedoAtEndsAreNoOps ==
  [][(\/ lastOp'.op = "undo" /\ history.index = 0
      \/ lastOp'.op = "redo" /\ history.index = Len(history.entries) - 1)
       => /\ history' = history
          /\ lights' = lights
          /\ cameras' = cameras
          /\ iblRotation' = iblRotation
          /\ sceneDirty' = sceneDirty]_vars

\* an undo at index 0 found uncommitted edits and left them alone
UndoAtStartKeptEdits ==
  /\ lastOp.op = "undo"
  /\ history.index = 0
  /\ sceneDirty
  /\ Live # Current

\* C20: an undo with index > 0 lowers index by exactly 1 and a redo with
\* index < length - 1 raises it by exactly 1; afterwards the live state is
\* the entry at the new index, the dirty flag is false, and the entries
\* and hydrated are what they were.
UndoRedoMoveByOne ==
  [][/\ (lastOp'.op = "undo" /\ history.index > 0) =>
          /\ history'.index = history.index - 1
          /\ Live' = Current'
          /\ ~sceneDirty'
          /\ history'.entries = history.entries
          /\ history'.hydrated = history.hydrated
     /\ (lastOp'.op = "redo" /\ history.index < Len(history.entries) - 1) =>
          /\ history'.index = history.index + 1
          /\ Live' = Current'
          /\ ~sceneDirty'
          /\ history'.entries = history.entries
          /\ history'.hydrated = history.hydrated]_vars

\* an undo has just moved back from position 2 or later (an undo at
\* index 0 leaves index 0), so it and a following redo are both effective
UndoneToLaterEntry ==
  /\ lastOp.op = "undo"
  /\ history.index >= 1
  /\ canRedoSceneAtom(Store)
  /\ ~sceneDirty
  /\ Live = Current

\* ------------------------------------------------------------------------
\* Hydration of a stored history
\* ------------------------------------------------------------------------
\* C21: after hydrate with a non-empty list of entries the history holds,
\* in their order, the last 100 of the entries that have version 1 and
\* array-valued lights and cameras, each with a missing or non-numeric
\* iblRotation replaced by 0; index is the payload index clamped into
\* [0, length - 1], or the last position when the payload index is not a
\* number; when no entry survives the history is the single snapshot of
\* the live state with index 0.
HydrateKeepsValidEntries ==
  LET p == PayloadOf(lastOp.payload)
      valid(e) == e.isObject /\ e.version = 1 /\ e.lightsIsArray /\ e.camerasIsArray
      survivors == SelectSeq(p.entries.v, valid)
      last == IF Len(survivors) > SCENE_HISTORY_LIMIT
                THEN SubSeq(survivors, Len(survivors) - SCENE_HISTORY_LIMIT + 1,
                            Len(survivors))
                ELSE survivors
      expected == [i \in 1..Len(last) |->
                     [version |-> 1, lights |-> last[i].lights,
                      cameras |-> last[i].cameras,
                      iblRotation |-> IF last[i].iblRotation.t \in {"num", "half"}
                                        THEN last[i].iblRotation ELSE Num(0)]]
  IN  (lastOp.op = "hydrate" /\ p.t = "object" /\ p.entries.t = "array"
         /\ Len(p.entries.v) > 0) =>
        /\ ~threw
        /\ history.hydrated
        /\ IF Len(last) = 0
             THEN history.entries = << lastOp.snapshot >> /\ history.index = 0
             ELSE /\ history.entries = expected
                  /\ p.index.t = "num" =>
                       history.index =
                         IF p.index.v < 0 THEN 0
                         ELSE IF p.index.v > Len(last) - 1 THEN Len(last) - 1
                         ELSE p.index.v
                  /\ p.index.t \in {"undefined", "null", "string", "nan"} =>
                       history.index = Len(last) - 1

\* ------------------------------------------------------------------------
\* Commit
\* ------------------------------------------------------------------------
\* C22: a commit with the dirty flag down changes nothing; a commit with
\* the dirty flag up leaves the live state alone, pushes its snapshot
\* (after the entry at index, unless it equals that entry) and lowers the
\* flag; after every commit the live state is the entry at index.
CommitPushesLiveState ==
  [][lastOp'.op = "commit" =>
       /\ ~sceneDirty => UNCHANGED storeVars
       /\ sceneDirty =>
            /\ ~sceneDirty'
            /\ Live' = Live
            /\ history'.hydrated = history.hydrated
            /\ IF snapshotsEqual(Current, Live)
                 THEN history' = history
                 ELSE /\ history'.index = Len(history'.entries) - 1
                      /\ history'.entries =
                           SliceLast(Append(SubSeq(history.entries, 1, history.index + 1),
                                            Live), SCENE_HISTORY_LIMIT)
       /\ Live' = Current']_vars

\* ------------------------------------------------------------------------
\* Object identity: the arrays of the live state and of the history
\* entries as objects of a heap.  An array is a reference, its content a
\* small number; heap maps the references in use to their contents.
\* ------------------------------------------------------------------------
MaxHeapSteps == 4

ArrayContents == { 0, 1 }

\* the reference a new object gets: the first one not in use
FreshRef(heap) ==
  CHOOSE n \in 1..(Cardinality(DOMAIN heap) + 1) :
    /\ n \notin DOMAIN heap
    /\ \A m \in 1..(n - 1) : m \in DOMAIN heap

\* a new array with the given content
NewArray(heap, content) ==
  [heap |-> [r \in DOMAIN heap \cup {FreshRef(heap)} |->
               IF r \in DOMAIN heap THEN heap[r] ELSE content],
   ref |-> FreshRef(heap)]

\* cloneSnapshot handing back the object it was given
structuredClone_Shared(heap, ref) == [heap |-> heap, ref |-> ref]

\* structuredClone(value): a new object with the same content
structuredClone(heap, ref) == NewArray(heap, heap[ref])

\* createSceneSnapshot and cloneSnapshot(snapshot) on heap objects
createSceneSnapshotRef(heap, l, c, i) ==
  LET a == structuredClone(heap, l)
      b == structuredClone(a.heap, c)
  IN  [heap |-> b.heap, s |-> [lights |-> a.ref, cameras |-> b.ref, iblRotation |-> i]]

\* what JSON.stringify sees of a snapshot
Deref(heap, s) ==
  [lights |-> heap[s.lights], cameras |-> heap[s.cameras], iblRotation |-> s.iblRotation]

appendSceneHistoryRef(hs, snapshot) ==
  LET current == hs.entries[hs.index + 1]
      copy == createSceneSnapshotRef(hs.heap, snapshot.lights, snapshot.cameras,
                                     snapshot.iblRotation)
      truncated == Append(SubSeq(hs.entries, 1, hs.index + 1), copy.s)
      trimmed == SliceLast(truncated, SCENE_HISTORY_LIMIT)
  IN  IF Deref(hs.heap, current) = Deref(hs.heap, snapshot)
        THEN hs
        ELSE [hs EXCEPT !.heap = copy.heap, !.entries = trimmed,
                        !.index = Len(trimmed) - 1]

pushSceneHistoryRef(hs, snapshot) ==
  LET nextSnapshot == createSceneSnapshotRef(hs.heap, snapshot.lights, snapshot.cameras,
                                             snapshot.iblRotation)
  IN  appendSceneHistoryRef([hs EXCEPT !.heap = nextSnapshot.heap], nextSnapshot.s)

commitSceneHistoryRef(hs) ==
  IF ~hs.dirty THEN hs
  ELSE
    LET snapshot == createSceneSnapshotRef(hs.heap, hs.lights, hs.cameras, hs.iblRotation)
    IN  pushSceneHistoryRef([hs EXCEPT !.heap = snapshot.heap, !.dirty = FALSE],
                            snapshot.s)

\* the restore shared by undo, redo and applySceneSnapshot
restoreRef(hs, snapshot) ==
  LET a == structuredClone(hs.heap, snapshot.lights)
      b == structuredClone(a.heap, snapshot.cameras)
  IN  [hs EXCEPT !.heap = b.heap, !.lights = a.ref, !.cameras = b.ref,
                 !.iblRotation = snapshot.iblRotation, !.dirty = FALSE]

undoSceneRef(hs) ==
  IF hs.index <= 0 THEN hs
  ELSE [restoreRef(hs, hs.entries[hs.index]) EXCEPT !.index = hs.index - 1]

redoSceneRef(hs) ==
  IF hs.index >= Len(hs.entries) - 1 THEN hs
  ELSE [restoreRef(hs, hs.entries[hs.index + 2]) EXCEPT !.index = hs.index + 1]

\* the caller's snapshot object holds arrays of its own
applySceneSnapshotRef(hs, l, c, i) ==
  LET a == NewArray(hs.heap, l)
      b == NewArray(a.heap, c)
      snapshot == [lights |-> a.ref, cameras |-> b.ref, iblRotation |-> i]
  IN  pushSceneHistoryRef(restoreRef([hs EXCEPT !.heap = b.heap], snapshot), snapshot)

\* set(lightsAtom, next): the caller's array becomes the live array
lightsAtomRef(hs, content) ==
  LET a == NewArray(hs.heap, content)
  IN  [hs EXCEPT !.heap = a.heap, !.lights = a.ref, !.dirty = TRUE]

camerasAtomRef(hs, content) ==
  LET a == NewArray(hs.heap, content)
  IN  [hs EXCEPT !.heap = a.heap, !.cameras = a.ref, !.dirty = TRUE]

iblRotationAtomRef(hs, value) == [hs EXCEPT !.iblRotation = value, !.dirty = TRUE]

\* the module's defaultLights and defaultCameras arrays
DefaultRefs == { 1, 2 }

\* objects nothing refers to any more are forgotten
Reachable(hs) ==
  DefaultRefs \cup {hs.lights, hs.cameras}
    \cup { hs.entries[i].lights : i \in 1..Len(hs.entries) }
    \cup { hs.entries[i].cameras : i \in 1..Len(hs.entries) }

Collect(hs) == [hs EXCEPT !.heap = [r \in Reachable(hs) |-> hs.heap[r]]]

\* module load: the default arrays, their clones as live state and the
\* default snapshot as the first entry
HeapAtLoad ==
  LET defaults == [r \in DefaultRefs |-> 0]
      l == structuredClone(defaults, 1)
      c == structuredClone(l.heap, 2)
      d == createSceneSnapshotRef(c.heap, 1, 2, 0)
  IN  [fn |-> "heap", op |-> "init", heap |-> d.heap, lights |-> l.ref,
       cameras |-> c.ref, iblRotation |-> 0, dirty |-> FALSE,
       entries |-> << d.s >>, index |-> 0, hydrated |-> FALSE, steps |-> 0]

InitHeap ==
  /\ AtRest
  /\ calc = HeapAtLoad

HeapStep(name, hs) ==
  /\ calc.steps < MaxHeapSteps
  /\ CalcStep([Collect(hs) EXCEPT !.op = name, !.steps = calc.steps + 1])

HSetLights == \E v \in ArrayContents : HeapStep("setLights", lightsAtomRef(calc, v))

HSetCameras == \E v \in ArrayContents : HeapStep("setCameras", camerasAtomRef(calc, v))

HSetIblRotation == \E v \in ArrayContents :
  HeapStep("setIblRotation", iblRotationAtomRef(calc, v))

\* the holder of the live arrays writes into them
HMutateLive == \E v \in ArrayContents :
  \/ HeapStep("mutateLights", [calc EXCEPT !.heap[calc.lights] = v])
  \/ HeapStep("mutateCameras", [calc EXCEPT !.heap[calc.cameras] = v])

HCommit == HeapStep("commit", commitSceneHistoryRef(calc))

HUndo == HeapStep("undo", undoSceneRef(calc))

HRedo == HeapStep("redo", redoSceneRef(calc))

HApply == \E l \in ArrayContents, c \in ArrayContents, i \in ArrayContents :
  HeapStep("apply", applySceneSnapshotRef(calc, l, c, i))

NextHeap ==
  \/ HSetLights
  \/ HSetCameras
  \/ HSetIblRotation
  \/ HMutateLive
  \/ HCommit
  \/ HUndo
  \/ HRedo
  \/ HApply

SpecHeap == InitHeap /\ [][NextHeap]_vars

LiveEdits == { "setLights", "setCameras", "setIblRotation", "mutateLights", "mutateCameras" }

\* C23: a write to the live lights, cameras or rotation leaves entries,
\* index and hydrated as they were, and every stored entry reads the same
\* after the write as before it.
LiveEditsLeaveHistoryAlone ==
  [][calc'.op \in LiveEdits =>
       /\ calc'.entries = calc.entries
       /\ calc'.index = calc.index
       /\ calc'.hydrated = calc.hydrated
       /\ \A i \in 1..Len(calc.entries) :
            Deref(calc'.heap, calc.entries[i]) = Deref(calc.heap, calc.entries[i])]_vars

\* the live arrays were written in place right after their snapshot was
\* stored, and the stored entry differs from the live state now
EntryOutlivesLiveEdit ==
  /\ calc.fn = "heap"
  /\ calc.op \in {"mutateLights", "mutateCameras"}
  /\ Len(calc.entries) >= 2
  /\ calc.index = Len(calc.entries) - 1
  /\ Deref(calc.heap, calc.entries[calc.index + 1]) # Deref(calc.heap, calc)

\* ------------------------------------------------------------------------
\* Removal of entries
\* ------------------------------------------------------------------------
PushingOps == { "push", "pushLive", "commit", "apply" }

\* every entry of before is still in after, in place or moved up by the
\* number of oldest entries dropped
KeepsAllBut(before, after, dropped) ==
  /\ Len(after) >= Len(before) - dropped
  /\ \A i \in (dropped + 1)..Len(before) : after[i - dropped] = before[i]

\* C24 as stated: an entry leaves the history only when a push makes the
\* length exceed 100, and then the oldest goes; push below the limit,
\* commit, undo, redo and import remove no entry.
OnlyOverflowRemovesEntries ==
  [][lastOp'.op # "hydrate" =>
       \/ KeepsAllBut(history.entries, history'.entries, 0)
       \/ /\ lastOp'.op \in PushingOps
          /\ Len(history.entries) = SCENE_HISTORY_LIMIT
          /\ KeepsAllBut(history.entries, history'.entries, 1)]_vars

\* C24 amended: undo, redo and the live-state setters remove no entry; a
\* push, commit or import either leaves the entries alone or replaces the
\* entries after index (the redo branch) by the new snapshot and then, if
\* that makes more than 100, drops the oldest; hydrate replaces the list.
OnlyBranchOffAndOverflowRemoveEntries ==
  [][/\ lastOp'.op \notin (PushingOps \cup {"hydrate"}) =>
          history'.entries = history.entries
     /\ lastOp'.op \in PushingOps =>
          \/ history'.entries = history.entries
          \/ LET kept == SubSeq(history.entries, 1, history.index + 1)
                 dropped == IF Len(kept) = SCENE_HISTORY_LIMIT THEN 1 ELSE 0
             IN  /\ Len(history'.entries) = Len(kept) + 1 - dropped
                 /\ KeepsAllBut(kept, history'.entries, dropped)
                 /\ history'.entries[Len(history'.entries)] = lastOp'.snapshot]_vars

\* a commit made one step back from the end of a stored history of three
\* has replaced the third entry
CommitReplacedRedoBranch ==
  /\ lastOp.op = "commit"
  /\ steps = 3
  /\ history.hydrated
  /\ Len(history.entries) = 3
  /\ history.entries[1] = snapA
  /\ history.entries[2] = snapB
  /\ history.entries[3] # snapC
  /\ history.index = 2

\* ------------------------------------------------------------------------
\* Flushing: timers, pointer gestures and page unload
\* ------------------------------------------------------------------------
NextFlush ==
  \/ Mount
  \/ UrlRender
  \/ IdbLoadDone
  \/ EditLights
  \/ EditMode
  \/ PointerDown
  \/ PointerUp
  \/ PointerCancel
  \/ BeforeUnload
  \/ UrlTimerFires
  \/ CommitTimerFires

SpecFlush == Init /\ [][NextFlush]_vars

\* C25: from pointer-down to the next pointer-up or pointer-cancel no URL
\* write happens; a flush timer that fires in between writes nothing,
\* leaves dirty true and has scheduled another flush.
NoUrlWriteWhileInteracting ==
  [][urlSync.interactingRef =>
       /\ urlSync'.address = urlSync.address
       /\ urlSync'.lastSnapshotRef = urlSync.lastSnapshotRef
       /\ ~wrote'.url
       /\ lastOp'.op = "urlTimer" =>
            /\ urlSync'.dirtyRef
            /\ urlSync'.timerRef = "normal"
            /\ urlSync'.timers = 1]_vars

\* a flush timer fired during a gesture while a change was waiting
FlushDeferredDuringGesture ==
  /\ lastOp.op = "urlTimer"
  /\ urlSync.interactingRef
  /\ urlSync.dirtyRef
  /\ urlSync.timerRef = "normal"
  /\ UrlSnapshot(urlSync) # urlSync.lastSnapshotRef
  /\ urlSync.lastSnapshotRef # EmptySnapshotRef

\* C26: pointer-up and pointer-cancel set interacting to false; with dirty
\* true the pending timer is cancelled and a single short timer takes its
\* place, with dirty false the timer is left as it was.
PointerUpReschedulesFlush ==
  [][lastOp'.op \in {"pointerup", "pointercancel"} =>
       /\ ~urlSync'.interactingRef
       /\ urlSync'.dirtyRef = urlSync.dirtyRef
       /\ IF urlSync.dirtyRef
            THEN urlSync'.timerRef = "short" /\ urlSync'.timers = 1
            ELSE /\ urlSync'.timerRef = urlSync.timerRef
                 /\ urlSync'.timers = urlSync.timers]_vars

\* a gesture ended by pointer-cancel with a change waiting
GestureCancelledWithChangePending ==
  /\ lastOp.op = "pointercancel"
  /\ urlSync.dirtyRef
  /\ urlSync.timerRef = "short"
  /\ UrlSnapshot(urlSync) # urlSync.lastSnapshotRef
  /\ urlSync.lastSnapshotRef # EmptySnapshotRef

\* C27: once the history is hydrated, pointer-up and page unload commit
\* at the event itself, whatever the debounce timer is doing: live state
\* that was dirty is the current entry afterwards and the dirty flag is
\* false.
PointerUpAndUnloadCommit ==
  [][(history.hydrated /\ lastOp'.op \in {"pointerup", "beforeunload"}) =>
       /\ ~sceneDirty'
       /\ Live' = Live
       /\ sceneDirty => Current' = Live
       /\ sceneDirty => ~persistence'.commitTimer]_vars

\* page unload committed an edit while its debounce timer was pending
UnloadCommittedPendingEdit ==
  /\ lastOp.op = "beforeunload"
  /\ wrote.commit
  /\ wrote.idb
  /\ history.hydrated
  /\ Current = Live
  /\ Len(history.entries) >= 2

AtMostOneTimerPerChannel ==
  /\ urlSync.timers \in {0, 1}
  /\ urlSync.timers = 1 <=> urlSync.timerRef # "none"
  /\ persistence.timers \in {0, 1}
  /\ persistence.timers = 1 <=> persistence.commitTimer

\* a second change arrived while the timers of both channels were pending
ChangeWhileTimersPending ==
  /\ lastOp.op = "setLights"
  /\ burst >= 2
  /\ urlSync.timers = 1
  /\ persistence.timers = 1

\* ------------------------------------------------------------------------
\* Eventual durability of the URL channel
\* ------------------------------------------------------------------------
NextUrl ==
  \/ Mount
  \/ UrlRender
  \/ EditLights
  \/ EditMode
  \/ PointerDown
  \/ PointerUp
  \/ PointerCancel
  \/ UrlTimerFires

\* a pending timer fires, and a gesture in progress ends
SpecUrlFair ==
  /\ Init
  /\ [][NextUrl]_vars
  /\ WF_vars(UrlTimerFires)
  /\ WF_vars(urlSync.interactingRef /\ (PointerUp \/ PointerCancel))

ChangesStop == <>[][~(EditLights \/ EditMode)]_vars

GesturesStop == <>[](~urlSync.interactingRef)

UrlDirty == urlSync.hydratedRef /\ urlSync.dirtyRef

UrlFlushed ==
  /\ ~urlSync.dirtyRef
  /\ urlSync.lastSnapshotRef = UrlSnapshot(urlSync)
  /\ urlSync.address = UrlSnapshot(urlSync)

\* C30 as stated: if timers fire, every gesture ends and changes stop,
\* a dirty state is followed by a flush that clears dirty with the
\* written fingerprint that of the current state.
DirtyLeadsToFlushed == ChangesStop => (UrlDirty ~> UrlFlushed)

\* C30 amended: the same, provided that gestures stop as well (from some
\* moment on no pointer is down).
DirtyLeadsToFlushedOnceIdle == (ChangesStop /\ GesturesStop) => (UrlDirty ~> UrlFlushed)

\* a change of the mode, made after hydration, was written by a flush
ModeChangeFlushed ==
  /\ lastOp.op = "urlTimer"
  /\ wrote.url
  /\ UrlFlushed
  /\ urlSync.lastSnapshotRef.mode = codeMode

\* ------------------------------------------------------------------------
\* Writes to the durable store in flight
\* ------------------------------------------------------------------------
MaxWrites == 3

\* calc holds the side of IndexedDB: the idbSet calls whose openDatabase
\* has not resolved yet and the value stored under the key
NothingStored == [n |-> 0, entries |-> << >>, index |-> 0]

InitIdb ==
  /\ AtRest
  /\ calc = [fn |-> "idb", issued |-> 0, inflight |-> {}, stored |-> NothingStored]

\* One event of the component: the store becomes st and the save effect
\* runs; idbSet(key, {entries, index}) joins the calls in flight.
IdbStep(name, st, per) ==
  LET p1 == saveEffect(per, Store, st)
      issues == p1.issued # per.issued
  IN  /\ issues => calc.issued < MaxWrites
      /\ StoreBecomes(st)
      /\ persistence' = p1
      /\ lastOp' = Op(name, LiveSnapshot(Store), "null")
      /\ calc' = IF issues
                   THEN [calc EXCEPT !.issued = @ + 1,
                                     !.inflight = @ \cup {[n |-> calc.issued + 1,
                                                          entries |-> p1.issued.entries,
                                                          index |-> p1.issued.index]}]
                   ELSE calc
      /\ UNCHANGED << steps, mode, urlSync, wrote, burst, toast >>

\* mount and the load from an empty store
QLoad ==
  /\ persistence.phase = "unmounted"
  /\ IdbStep("load", loadEffect(Store, NullPayload), [persistence EXCEPT !.phase = "ready"])

QEdit == \E v \in IblInputs :
  /\ persistence.phase = "ready"
  /\ iblRotation # v
  /\ IdbStep("setIblRotation", iblRotationAtom(Store, v), persistence)

QCommit ==
  /\ persistence.phase = "ready"
  /\ IdbStep("commit", commitSceneHistoryAtom(Store), persistence)

QUndo ==
  /\ persistence.phase = "ready"
  /\ IdbStep("undo", undoSceneAtom(Store), persistence)

QRedo ==
  /\ persistence.phase = "ready"
  /\ IdbStep("redo", redoSceneAtom(Store), persistence)

\* openDatabase of one idbSet call resolves: its transaction puts the
\* value and completes.  Nothing in idbSet orders the calls in flight.
QPutLands == \E w \in calc.inflight :
  /\ calc' = [calc EXCEPT !.inflight = @ \ {w}, !.stored = w]
  /\ lastOp' = Op("put", LiveSnapshot(Store), "null")
  /\ UNCHANGED << storeVars, threw, steps, syncVars >>

NextIdb ==
  \/ QLoad
  \/ QEdit
  \/ QCommit
  \/ QUndo
  \/ QRedo
  \/ QPutLands

SpecIdb == InitIdb /\ [][NextIdb]_vars

\* C31: once every write in flight has completed, in whatever order, the
\* durable store holds the current entries and index.
StoreHoldsCurrentHistory ==
  (calc.fn = "idb" /\ calc.issued > 0 /\ calc.inflight = {}) =>
    /\ calc.stored.entries = history.entries
    /\ calc.stored.index = history.index


\* ------------------------------------------------------------------------
\* Reading a URL parameter: parseParam on any token
\* ------------------------------------------------------------------------
\* tokens that are neither base64url of JSON nor JSON: "%", "a", "{", "bnVs"
GarbageTokens == { << 37 >>, << 97 >>, << 123 >>, << 98, 110, 86, 115 >> }

\* what params.get(key) can return: nothing, a token the codec made, a
\* legacy raw JSON text, or garbage
InitParam ==
  /\ AtRest
  /\ calc \in
       { [fn |-> "param", phase |-> "token", x |-> x, token |-> encodeParam(x),
          kind |-> "encoded", out |-> Undefined] : x \in CodecValues }
       \cup
       { [fn |-> "param", phase |-> "token", x |-> x, token |-> JSONStringify(x),
          kind |-> "legacy", out |-> Undefined] : x \in CodecValues }
       \cup
       { [fn |-> "param", phase |-> "token", x |-> Undefined, token |-> t,
          kind |-> "other", out |-> Undefined] : t \in GarbageTokens \cup { << >> } }

ReadParam ==
  /\ calc.fn = "param"
  /\ calc.phase = "token"
  /\ CalcStep([calc EXCEPT !.phase = "parsed", !.out = parseParam(calc.token)])

ReadDecoded ==
  /\ calc.fn = "param"
  /\ calc.phase = "token"
  /\ CalcStep([calc EXCEPT !.phase = "decoded", !.out = decodeParam(calc.token)])

NextParam ==
  \/ ReadParam
  \/ ReadDecoded

SpecParam == InitParam /\ [][NextParam]_vars

\* the token read as base64url of UTF-8 JSON, failure kept apart from null
Base64UrlJson(raw) ==
  LET padded == raw \o Repeat61((4 - (Len(raw) % 4)) % 4)
      base64 == ReplaceAll(ReplaceAll(padded, 45, 43), 95, 47)
  IN  IF ~atobAccepts(base64) THEN [threw |-> TRUE, value |-> Undefined]
      ELSE JSONParse(TextDecode(atob(base64)))

\* C32: reading a parameter gives absent for a missing or empty token, the
\* decoded value for a token that is base64url JSON, the raw JSON value for
\* a token that is not, absent when both fail; and every token the codec
\* made of a value is read as present with that value.
ParamReadAsStated ==
  (calc.fn = "param" /\ calc.phase = "parsed") =>
    LET raw == calc.token
        viaBase64 == Base64UrlJson(raw)
        viaJson == JSONParse(raw)
    IN  /\ raw = << >> => calc.out = Undefined
        /\ (raw # << >> /\ ~viaBase64.threw) => calc.out = viaBase64.value
        /\ (raw # << >> /\ viaBase64.threw /\ ~viaJson.threw) =>
             calc.out = viaJson.value
        /\ (viaBase64.threw /\ viaJson.threw) => calc.out = Undefined
        /\ calc.kind = "encoded" => (calc.out # Undefined /\ calc.out = calc.x)


\* ------------------------------------------------------------------------
\* Timestamps of lights and the URL
\* ------------------------------------------------------------------------
\* the values Date.now() gives to ts in an edit
TsInputs == { 0, 7, 9 }

\* an edit that replaces the lights by the same lights with a new ts
TouchLights == \E t \in TsInputs :
  /\ Mounted /\ burst < MaxBurst
  /\ \E i \in DOMAIN lights : lights[i].ts # t
  /\ SyncStep("touchLights",
              lightsAtom(Store, [i \in DOMAIN lights |-> [lights[i] EXCEPT !.ts = t]]),
              mode, urlSync, persistence, {"lights"}, FALSE, TRUE)

NextTs ==
  \/ Mount
  \/ UrlRender
  \/ IdbLoadDone
  \/ EditLights
  \/ EditMode
  \/ TouchLights
  \/ UrlTimerFires

SpecTs == Init /\ [][NextTs]_vars

\* the lights, ts left out, with everything else the URL carries equal to
\* what was last written
DiffersAtMostInTs(u) ==
  /\ u.lastSnapshotRef # EmptySnapshotRef
  /\ u.lastSnapshotRef.mode = u.modeRef
  /\ u.lastSnapshotRef.cameras = u.camerasRef
  /\ Len(u.lastSnapshotRef.lights) = Len(u.lightsRef)
  /\ \A i \in DOMAIN u.lightsRef :
       /\ u.lastSnapshotRef.lights[i].id = u.lightsRef[i].id
       /\ u.lastSnapshotRef.lights[i].selected = u.lightsRef[i].selected
       /\ u.lastSnapshotRef.lights[i].visible = u.lightsRef[i].visible
       /\ u.lastSnapshotRef.lights[i].solo = u.lightsRef[i].solo
       /\ u.lastSnapshotRef.lights[i].keys = u.lightsRef[i].keys

\* C33: what is written to the URL never has a ts field in a light, and a
\* flush that finds the lights differing from the last written state at
\* most in ts writes nothing and clears dirty.
TsIsNotSharedState ==
  /\ [](\A i \in DOMAIN urlSync.address.lights :
          "ts" \notin DOMAIN urlSync.address.lights[i])
  /\ [][(lastOp'.op = "urlTimer" /\ urlSync.dirtyRef /\ DiffersAtMostInTs(urlSync))
          => /\ urlSync'.address = urlSync.address
             /\ urlSync'.lastSnapshotRef = urlSync.lastSnapshotRef
             /\ ~urlSync'.dirtyRef]_vars

\* a flush after the lights were written and then given the ts 9 has
\* written nothing
TouchedLightsNotWritten ==
  /\ lastOp.op = "urlTimer"
  /\ ~wrote.url
  /\ ~urlSync.dirtyRef
  /\ urlSync.address # EmptySnapshotRef
  /\ \A i \in DOMAIN lights : lights[i].ts = 9
  /\ urlSync.lightsRef = lights


\* ------------------------------------------------------------------------
\* sampleBilinear: the four source positions of one sample
\* ------------------------------------------------------------------------
\* u and v are the fractions un / UvGrid and vn / UvGrid; the products
\* u * sourceWidth and v * maxY are exact for them, and for any double
\* u < 1 the rounded product stays below sourceWidth.
MaxSourceSize == 3

UvGrid == 4

\* x1 without the wraparound
WrapColumn_Clamp(x, sourceWidth) == IF x < sourceWidth - 1 THEN x ELSE sourceWidth - 1

\* % sourceWidth of a column that is not negative
WrapColumn(x, sourceWidth) == x % sourceWidth

\* Math.min(y0 + 1, maxY)
ClampRow(y, maxY) == IF y < maxY THEN y ELSE maxY

\* x0, y0, x1, y1 and the indices i00, i10, i01, i11 of sampleBilinear
sampleBilinear(un, vn, sourceWidth, sourceHeight) ==
  LET maxY == sourceHeight - 1
      floorX == (un * sourceWidth) \div UvGrid
      x0 == WrapColumn(floorX, sourceWidth)
      y0 == (vn * maxY) \div UvGrid
      x1 == WrapColumn(x0 + 1, sourceWidth)
      y1 == ClampRow(y0 + 1, maxY)
  IN  [x0 |-> x0, y0 |-> y0, x1 |-> x1, y1 |-> y1,
       i00 |-> (y0 * sourceWidth + x0) * 4,
       i10 |-> (y0 * sourceWidth + x1) * 4,
       i01 |-> (y1 * sourceWidth + x0) * 4,
       i11 |-> (y1 * sourceWidth + x1) * 4]

NoSample ==
  [x0 |-> 0, y0 |-> 0, x1 |-> 0, y1 |-> 0, i00 |-> 0, i10 |-> 0, i01 |-> 0, i11 |-> 0]

\* u in [0, 1), v in [0, 1], sources of every size from 1 x 1
InitSample ==
  /\ AtRest
  /\ calc \in { [fn |-> "sample", builder |-> "none", un |-> un, vn |-> vn,
                 sourceWidth |-> w, sourceHeight |-> h, at |-> NoSample] :
                un \in 0..(UvGrid - 1), vn \in 0..UvGrid,
                w \in 1..MaxSourceSize, h \in 1..MaxSourceSize }

Sample(builder) ==
  /\ calc.builder = "none"
  /\ CalcStep([calc EXCEPT
       !.builder = builder,
       !.at = sampleBilinear(calc.un, calc.vn, calc.sourceWidth, calc.sourceHeight)])

SampleUint8 == Sample("uint8")

SampleFloat == Sample("float")

NextSample ==
  \/ SampleUint8
  \/ SampleFloat

SpecSample == InitSample /\ [][NextSample]_vars

\* the reads of a sample at index i: i, i + 1 and i + 2
ReadsInside(i, size) == i >= 0 /\ i + 2 < size

\* C34: for u in [0, 1), v in [0, 1] and a source of at least 1 x 1 the
\* four sample positions are columns 0..width-1 and rows 0..height-1, x1 is
\* the column after x0 with width-1 followed by 0, y1 is the row after y0
\* with height-1 followed by itself, and every read lies in the buffer of
\* width * height * 4 samples.
SamplePositionsInsideSource ==
  (calc.fn = "sample" /\ calc.builder # "none") =>
    LET at == calc.at
        w == calc.sourceWidth
        h == calc.sourceHeight
    IN  /\ at.x0 \in 0..(w - 1)
        /\ at.x1 \in 0..(w - 1)
        /\ at.y0 \in 0..(h - 1)
        /\ at.y1 \in 0..(h - 1)
        /\ at.x1 = (IF at.x0 = w - 1 THEN 0 ELSE at.x0 + 1)
        /\ at.y1 = (IF at.y0 = h - 1 THEN h - 1 ELSE at.y0 + 1)
        /\ \A i \in { at.i00, at.i10, at.i01, at.i11 } : ReadsInside(i, w * h * 4)

\* a sample in the last column and the last row of a source of the
\* largest size
SampledAtLastColumnAndRow ==
  /\ calc.fn = "sample"
  /\ calc.builder = "float"
  /\ calc.sourceWidth = MaxSourceSize
  /\ calc.sourceHeight = MaxSourceSize
  /\ calc.vn = UvGrid
  /\ calc.at.x0 = MaxSourceSize - 1
  /\ calc.at.x1 = 0
  /\ calc.at.y0 = MaxSourceSize - 1
  /\ calc.at.y1 = MaxSourceSize - 1


\* ------------------------------------------------------------------------
\* The store through its exported atoms only
\* ------------------------------------------------------------------------
NextStore ==
  \/ SetLights
  \/ SetCameras
  \/ SetIblRotation
  \/ Commit
  \/ Undo
  \/ Redo
  \/ ApplySceneSnapshot
  \/ Hydrate

SpecStore == Init /\ [][NextStore]_vars

\* C35: whenever the dirty flag is false the live lights, cameras and
\* iblRotation are deep-equal to the history entry at index.
CleanMeansCommitted == ~sceneDirty => DeepEqual(Live, Current)


\* C36: in the URL channel, after hydration, a change marked dirty always
\* has a flush timer pending, whatever event came last (a flush skipped
\* during a gesture, a pointer-up, a timer callback).
DirtyHasTimerPending ==
  (urlSync.hydratedRef /\ urlSync.dirtyRef) =>
    /\ urlSync.timerRef # "none"
    /\ urlSync.timers > 0

\* a timer fired during a gesture, wrote nothing and left a new timer
SkippedFlushRescheduled ==
  /\ lastOp.op = "urlTimer"
  /\ urlSync.hydratedRef
  /\ urlSync.interactingRef
  /\ urlSync.dirtyRef
  /\ ~wrote.url
  /\ urlSync.timerRef = "normal"


\* ------------------------------------------------------------------------
\* The persisted history read back into a fresh store
\* ------------------------------------------------------------------------
\* the store of a page that has just been loaded
FreshStore ==
  [lights |-> cloneSnapshot(defaultLights), cameras |-> cloneSnapshot(defaultCameras),
   iblRotation |-> Num(0), isApplying |-> FALSE, sceneDirty |-> FALSE,
   history |-> [entries |-> << defaultSceneSnapshot >>, index |-> 0, hydrated |-> FALSE],
   threw |-> FALSE]

\* the value the save effect hands to idbSet, as idbGet returns it
PersistedHistory(h) ==
  Payload(Entries([i \in 1..Len(h.entries) |-> RawOf(h.entries[i])]), Num(h.index))

Rehydrated == hydrateSceneHistoryAtom(FreshStore, PersistedHistory(history))

\* C37: hydrating a fresh store with the persisted {entries, index} of any
\* reachable history yields the same entries in the same order, the same
\* index and a live state equal to entries[index].
PersistenceRoundTrips ==
  /\ ~Rehydrated.threw
  /\ Rehydrated.history.entries = history.entries
  /\ Rehydrated.history.index = history.index
  /\ LiveSnapshot(Rehydrated) = Current


\* ------------------------------------------------------------------------
\* The settings import as an edit of the history
\* ------------------------------------------------------------------------
\* the history after the snapshot s was put behind the current entry
PushedAfterCurrent(h, s) ==
  SliceLast(Append(SubSeq(h.entries, 1, h.index + 1),
                   createSceneSnapshot(s.lights, s.cameras, s.iblRotation)),
            SCENE_HISTORY_LIMIT)

MaxLights == 3

\* lights.map(f)
MapLights(ls, f(_)) == [i \in 1..Len(ls) |-> f(ls[i])]

\* lights.find((l) => l.id === lightId) for an id of the list
FindLight(ls, lightId) == ls[CHOOSE i \in 1..Len(ls) : ls[i].id = lightId]

\* isSoloAtom
isSoloAtom(ls) == Len(ls) > 0 /\ \E i \in 1..Len(ls) : ls[i].solo

selectLightAtom(ls, lightId) ==
  LET f(l) == [l EXCEPT !.selected = (l.id = lightId)]
  IN  MapLights(ls, f)

deselectLightsAtom(ls) ==
  LET f(l) == [l EXCEPT !.selected = FALSE]
  IN  MapLights(ls, f)

toggleSoloAtom(ls, lightId) ==
  LET light == FindLight(ls, lightId)
      off(l) == [l EXCEPT !.solo = FALSE, !.visible = TRUE]
      on(l) == [l EXCEPT !.solo = (l.id = lightId), !.visible = (l.id = lightId),
                         !.selected = (l.id = lightId)]
  IN  IF isSoloAtom(ls) /\ light.solo THEN MapLights(ls, off) ELSE MapLights(ls, on)

toggleLightSelectionAtom(ls, lightId) ==
  LET f(l) == [l EXCEPT !.selected = IF l.id = lightId THEN ~l.selected ELSE FALSE]
  IN  MapLights(ls, f)

\* THREE.MathUtils.generateUUID(): an id no light of the list has
generateUUID(ls) == CHOOSE n \in 1..(Len(ls) + 1) : \A i \in 1..Len(ls) : ls[i].id # n

\* the copy that keeps the visibility of its original
duplicateLightAtom_KeepVisible(ls, lightId) ==
  LET light == FindLight(ls, lightId)
  IN  Append(ls, [light EXCEPT !.solo = FALSE, !.selected = FALSE,
                               !.id = generateUUID(ls)])

duplicateLightAtom(ls, lightId) ==
  LET light == FindLight(ls, lightId)
  IN  Append(ls, [light EXCEPT !.visible = IF isSoloAtom(ls) THEN FALSE ELSE light.visible,
                               !.solo = FALSE, !.selected = FALSE,
                               !.id = generateUUID(ls)])

deleteLightAtom(ls, lightId) ==
  LET light == FindLight(ls, lightId)
      keep(l) == l.id # lightId
      newLights == SelectSeq(ls, keep)
      off(l) == [l EXCEPT !.solo = FALSE, !.visible = TRUE]
  IN  IF isSoloAtom(ls) /\ light.solo THEN MapLights(newLights, off) ELSE newLights

LightIds == { lights[i].id : i \in 1..Len(lights) }

\* a helper writes the list through lightsAtom
LightStep(name, next) ==
  /\ StoreBecomes(lightsAtom(Store, next))
  /\ lastOp' = Op(name, defaultSceneSnapshot, "null")
  /\ UNCHANGED << steps, syncVars, calc >>

SelectLight == \E id \in LightIds : LightStep("selectLight", selectLightAtom(lights, id))

DeselectLights == LightStep("deselectLights", deselectLightsAtom(lights))

ToggleSolo == \E id \in LightIds : LightStep("toggleSolo", toggleSoloAtom(lights, id))

ToggleLightSelection == \E id \in LightIds :
  LightStep("toggleLightSelection", toggleLightSelectionAtom(lights, id))

DuplicateLight == \E id \in LightIds :
  /\ Len(lights) < MaxLights
  /\ LightStep("duplicateLight", duplicateLightAtom(lights, id))

DeleteLight == \E id \in LightIds : LightStep("deleteLight", deleteLightAtom(lights, id))

NextLights ==
  \/ SelectLight
  \/ DeselectLights
  \/ ToggleSolo
  \/ ToggleLightSelection
  \/ DuplicateLight
  \/ DeleteLight

SpecLights == Init /\ [][NextLights]_vars

\* C39: from the default lights, after any sequence of selectLight,
\* deselectLights, toggleLightSelection, toggleSolo, duplicateLight and
\* deleteLight on ids of the list, at most one light is solo, at most one
\* is selected, and while some light is solo a light is visible exactly
\* when it is the solo light.
SoloAndSelectionConsistent ==
  /\ Cardinality({ i \in 1..Len(lights) : lights[i].solo }) <= 1
  /\ Cardinality({ i \in 1..Len(lights) : lights[i].selected }) <= 1
  /\ isSoloAtom(lights) =>
       \A i \in 1..Len(lights) : lights[i].visible <=> lights[i].solo

\* the solo light was duplicated while another light is selected: the copy
\* is hidden
SoloLightDuplicated ==
  /\ lastOp.op = "duplicateLight"
  /\ Len(lights) = MaxLights
  /\ lights[1].solo
  /\ ~lights[1].selected
  /\ \E i \in 2..(Len(lights) - 1) : lights[i].selected
  /\ ~lights[Len(lights)].visible
  /\ ~lights[Len(lights)].solo


\* ------------------------------------------------------------------------
\* Cameras read from the c parameter of the URL
\* ------------------------------------------------------------------------
MaxUrlCameras == 3

\* An element of the decoded array: an object or not, and its selected
\* property: "true", "false" or "other" (missing or not a boolean).
\* Position 5 stands for the position the element carries.
UrlElements ==
  { [isObject |-> o, selected |-> f] : o \in BOOLEAN, f \in {"true", "false", "other"} }

\* the decoded parameter: undefined or not an array, or an array
DecodedCameraParams ==
  { [isArray |-> FALSE, v |-> << >>] }
    \cup { [isArray |-> TRUE, v |-> v] :
             v \in UNION { [1..n -> UrlElements] : n \in 0..MaxUrlCameras } }

\* toBoolean(value.selected, index === 0); index counts from 0
normalizeCamera(value, index) ==
  IF ~value.isObject THEN [isNull |-> TRUE, camera |-> Camera(index + 1, FALSE, 5)]
  ELSE [isNull |-> FALSE,
        camera |-> Camera(index + 1,
                          IF value.selected = "other" THEN index = 0
                          ELSE value.selected = "true",
                          5)]

\* cameras.findIndex((camera) => camera.selected), counted from 1; 0 for -1
FindSelectedIndex(cs) ==
  IF \E i \in 1..Len(cs) : cs[i].selected
    THEN CHOOSE i \in 1..Len(cs) : cs[i].selected /\ \A j \in 1..(i - 1) : ~cs[j].selected
    ELSE 0

\* normalizeCameras that returns the cameras as normalizeCamera made them
normalizeCameras_KeepFlags(value) ==
  IF ~value.isArray THEN [isNull |-> TRUE, v |-> << >>]
  ELSE
    LET mapped == [i \in 1..Len(value.v) |-> normalizeCamera(value.v[i], i - 1)]
        notNull(c) == ~c.isNull
        kept == SelectSeq(mapped, notNull)
        cs == [i \in 1..Len(kept) |-> kept[i].camera]
    IN  IF Len(cs) = 0 THEN [isNull |-> TRUE, v |-> << >>]
        ELSE [isNull |-> FALSE, v |-> cs]

normalizeCameras(value) ==
  IF ~value.isArray THEN [isNull |-> TRUE, v |-> << >>]
  ELSE
    LET mapped == [i \in 1..Len(value.v) |-> normalizeCamera(value.v[i], i - 1)]
        notNull(c) == ~c.isNull
        kept == SelectSeq(mapped, notNull)
        cs == [i \in 1..Len(kept) |-> kept[i].camera]
        selectedIndex == FindSelectedIndex(cs)
        finalSelectedIndex == IF selectedIndex >= 1 THEN selectedIndex ELSE 1
    IN  IF Len(cs) = 0 THEN [isNull |-> TRUE, v |-> << >>]
        ELSE [isNull |-> FALSE,
              v |-> [i \in 1..Len(cs) |-> [cs[i] EXCEPT !.selected = (i = finalSelectedIndex)]]]

InitUrlCameras ==
  /\ AtRest
  /\ calc \in { [fn |-> "urlCameras", phase |-> "decoded", value |-> d,
                 out |-> [isNull |-> TRUE, v |-> << >>]] : d \in DecodedCameraParams }

\* the part of the hydration effect that reads the cameras
HydrateCamerasFromUrl ==
  /\ calc.fn = "urlCameras"
  /\ calc.phase = "decoded"
  /\ LET normalizedCameras == normalizeCameras(calc.value)
     IN  /\ calc' = [calc EXCEPT !.phase = "hydrated", !.out = normalizedCameras]
         /\ StoreBecomes(IF normalizedCameras.isNull THEN Store
                         ELSE camerasAtom(Store, normalizedCameras.v))
         /\ lastOp' = Op("hydrateCameras", defaultSceneSnapshot, "null")
         /\ UNCHANGED << steps, syncVars >>

NextUrlCameras == HydrateCamerasFromUrl

SpecUrlCameras == InitUrlCameras /\ [][NextUrlCameras]_vars

\* the object elements of the decoded array, in order
ObjectElements(value) ==
  LET isObj(e) == e.isObject
  IN  SelectSeq(value.v, isObj)

\* the first position of es at which flagged holds, 1 when there is none
FirstFlaggedOrFirst(es, flagged(_)) ==
  IF \E i \in 1..Len(es) : flagged(i)
    THEN CHOOSE i \in 1..Len(es) : flagged(i) /\ \A j \in 1..(i - 1) : ~flagged(j)
    ELSE 1

\* rejected, with the live cameras as they were, or accepted with exactly
\* the camera at position chosen selected
CamerasHydratedWith(chosen) ==
  LET es == ObjectElements(calc.value)
  IN  IF ~calc.value.isArray \/ Len(es) = 0
        THEN /\ calc.out.isNull
             /\ cameras = cloneSnapshot(defaultCameras)
             /\ ~sceneDirty
        ELSE /\ ~calc.out.isNull
             /\ cameras = calc.out.v
             /\ Len(cameras) = Len(es)
             /\ Len(cameras) >= 1
             /\ \A i \in 1..Len(cameras) : cameras[i].selected <=> (i = chosen)

\* C40 as stated: the cameras read from the URL are rejected or non-empty
\* with exactly one selected: the first camera whose selected is true in
\* the decoded parameter, or the first camera when none is.
UrlCamerasSelectFirstFlagged ==
  (calc.fn = "urlCameras" /\ calc.phase = "hydrated") =>
    LET es == ObjectElements(calc.value)
        flagged(i) == es[i].selected = "true"
    IN  CamerasHydratedWith(FirstFlaggedOrFirst(es, flagged))

\* C40 amended: the cameras read from the URL are rejected or non-empty
\* with exactly one selected: the first camera whose selected is true, a
\* camera at position 0 of the decoded array whose selected is no boolean
\* counting as true, or the first camera when there is none.
UrlCamerasSelectFirstNormalized ==
  (calc.fn = "urlCameras" /\ calc.phase = "hydrated") =>
    LET es == ObjectElements(calc.value)
        flagged(i) ==
          \/ es[i].selected = "true"
          \/ i = 1 /\ calc.value.v[1].isObject /\ es[i].selected = "other"
    IN  CamerasHydratedWith(FirstFlaggedOrFirst(es, flagged))

\* three cameras, the second and the third flagged: the second is selected
SecondUrlCameraSelected ==
  /\ calc.fn = "urlCameras"
  /\ calc.phase = "hydrated"
  /\ Len(calc.value.v) = MaxUrlCameras
  /\ \A i \in 1..Len(calc.value.v) : calc.value.v[i].isObject
  /\ calc.value.v[1].selected = "false"
  /\ \A i \in 2..Len(calc.value.v) : calc.value.v[i].selected = "true"
  /\ Len(cameras) = MaxUrlCameras
  /\ cameras[2].selected
  /\ \A i \in 1..Len(cameras) : i # 2 => ~cameras[i].selected

====
